---- MODULE Spec2Model ----
(***************************************************************************)
(* Maintenance operator: the Ingress handler (app/handlers/ingress.py) and *)
(* the shared helpers of app/utils.py, modelled over an abstract cluster   *)
(* API.  The cluster API is the external collaborator: create answers 409  *)
(* when the object exists, read, patch and delete answer 404 when it does  *)
(* not, and a patch replaces the fields its body names.  Every API call of *)
(* the code is one step of the worker that runs the handler, so that       *)
(* handlers of different Routes can interleave between calls.              *)
(***************************************************************************)
EXTENDS Naturals, Sequences, FiniteSets, TLC

VARIABLES
    ingress,     \* the watched Ingress objects: Route -> [annotations, spec]
    prior,       \* Route -> the revision before the last change (kopf's old), or None
    pending,     \* Route -> the last change has not been delivered to a handler yet
    configmaps,  \* <<namespace, name>> -> ConfigMap [annotations, data]
    pods,        \* set of <<namespace, name>>
    services,    \* set of <<namespace, name>>
    pc,          \* Worker -> the API call it makes next
    loc,         \* Worker -> the arguments and locals of the handler it runs
    inputs,      \* number of user edits or direct calls so far
    spec0,       \* Route -> the spec the Route was created with
    trail,       \* Route -> the transitions handled since the Route was last NORMAL
    lastCall,    \* the last completed direct call of an operation of app/utils.py
    tables,      \* namespace -> the ProxyRoutingTable of the namespace, where there is one
    live,        \* the addresses of the live worker processes
    recon,       \* the state of the Endpoint Reconciliation Worker
    custom       \* the Traefik custom objects: plural -> <<namespace, name>> -> object

vars == <<ingress, prior, pending, configmaps, pods, services, pc, loc, inputs,
          spec0, trail, lastCall, tables, live, recon, custom>>

\* the state of the proxy routing tables and of the worker that reconciles them
proxyVars == <<tables, live, recon>>

\* the state of the Routes, of their sets and of the handlers
routeVars == <<ingress, prior, pending, configmaps, pods, services, pc, loc,
               spec0, trail, lastCall>>

-----------------------------------------------------------------------------
(* Bounds of the model.                                                    *)

\* number of annotation inputs the user makes in one behaviour
MaxEdits == 4

\* the same, when handlers interleave
MaxConcEdits == 3

\* number of direct calls of acquire and release that may interleave
MaxConcCalls == 3

\* number of annotation inputs the user makes when API calls can fail
MaxFaultEdits == 3

\* number of objects that are deleted from outside the operator
MaxLosses == 2

\* number of changes of the worker pool and of the tables, and of failed cycles
MaxEvents == 4

\* number of annotation inputs and of repeated deliveries when one event can be
\* delivered to two handlers
MaxDupEdits == 4

\* number of annotation inputs when custom pages share their content
MaxSameEdits == 3

-----------------------------------------------------------------------------
(* Configuration of app/utils.py and the literals of the handler.          *)

MAINTENANCE_ANNOTATION == "maintenance-operator.mithucste30.io/enabled"
MAINTENANCE_ANNOTATION_VALUE == "true"
BACKUP_ANNOTATION == "maintenance-operator.mithucste30.io/original-service"
CUSTOM_PAGE_ANNOTATION == "maintenance-operator.mithucste30.io/custom-page"
BACKUP_CONFIGMAP_PREFIX == "maintenance-backup"
MAINTENANCE_SERVICE_PORT == 80
MAINTENANCE_CONFIGMAP_NAME == "maintenance-operator-default-pages"
SERVICE_NAME_ANNOTATION == "maintenance-operator.kahf.io/service-name"

\* Python's None, and the empty string that stands for it where only the
\* truth value of a string is used
None == [isNone |-> TRUE]
NoString == ""

-----------------------------------------------------------------------------
(* The universe the model draws its inputs from.                           *)

Workers == {"w1", "w2"}
FirstWorker == "w1"
\* the arguments of direct calls of acquire and release
ApiNamespaces == {"ns1"}
ApiNames == {"r1", "r2", "r3"}
ApiPages == {NoString, "blue"}
\* the watched Ingress objects: both in one namespace, so that they share sets
Routes == {<<"ns1", "r1">>, <<"ns1", "r2">>}
\* values the user gives the custom-page annotation (NoString: annotation absent)
CustomPages == {"blue"}
EnabledValues == {"true", "false"}

\* page ConfigMaps of the operator namespace: name -> data['page.html']
OperatorPages ==
    [n \in {MAINTENANCE_CONFIGMAP_NAME, "maintenance-page-blue", "maintenance-page-green"} |->
        CASE n = MAINTENANCE_CONFIGMAP_NAME -> "<html>default</html>"
          [] n = "maintenance-page-blue" -> "<html>blue</html>"
          [] n = "maintenance-page-green" -> "<html>green</html>"]

Backend(n, p) == [service |-> [name |-> n, port |-> [number |-> p]]]

\* the Ingress specs a Route starts with: one rule with one path, no rule but
\* a defaultBackend, and a rule without an http section beside a rule with two paths
IngressSpecs ==
    { [rules |-> << [host |-> "a.example",
                     http |-> [paths |-> << [path |-> "/", backend |-> Backend("svc-a", 8080)] >>]] >>,
       defaultBackend |-> None],
      [rules |-> << >>,
       defaultBackend |-> Backend("svc-b", 8080)],
      [rules |-> << [host |-> "c.example"],
                    [host |-> "d.example",
                     http |-> [paths |-> << [path |-> "/x", backend |-> Backend("svc-c", 8080)],
                                            [path |-> "/y", backend |-> Backend("svc-d", 9090)] >>]] >>,
       defaultBackend |-> Backend("svc-b", 8080)] }

-----------------------------------------------------------------------------
(* Python helpers.                                                         *)

\* dict.get(key, default)
Get(d, k, default) == IF k \in DOMAIN d THEN d[k] ELSE default

\* dict with d[k] = v
Put(d, k, v) == [j \in (DOMAIN d) \cup {k} |-> IF j = k THEN v ELSE d[j]]

\* dict with k popped
Pop(d, k) == [j \in (DOMAIN d) \ {k} |-> d[j]]

EmptyDict == [j \in {} |-> NoString]

\* str.strip() and str.lower() on the strings of the model
Strip(s) == CASE s = " blue " -> "blue"
              [] s = " " -> NoString
              [] OTHER -> s

Lower(s) == CASE s = "DEFAULT" -> "default"
              [] s = "Default" -> "default"
              [] s = "Application/JSON" -> "application/json"
              [] s = "TEXT/HTML" -> "text/html"
              [] OTHER -> s

Contains(seq, x) == \E i \in 1..Len(seq) : seq[i] = x

Count(seq, x) == Cardinality({i \in 1..Len(seq) : seq[i] = x})

Without(seq, x) == SelectSeq(seq, LAMBDA y : y # x)

-----------------------------------------------------------------------------
(* The used-by annotation is a comma-joined string of Route names.  Names  *)
(* hold neither commas nor blanks, so the string is modelled by the         *)
(* sequence of its non-empty fields: '' is << >> and 'a,b' is <<"a","b">>.  *)

USED_BY_ANNOTATION == "maintenance-operator.mithucste30.io/used-by"

\* mutant: used-by is overwritten with the new name
AddUsedBy_Overwrite(used_by, ingress_name) == <<ingress_name>>

\* mutant: the name is appended without the membership test
AddUsedBy_Always(used_by, ingress_name) == Append(used_by, ingress_name)

\* ','.join(filter(None, [used_by, ingress_name])) unless the name is a field
AddUsedBy(used_by, ingress_name) ==
    IF Contains(used_by, ingress_name) THEN used_by ELSE Append(used_by, ingress_name)

\* mutant: the names after the released one are dropped with it
RemoveUsedBy_Truncate(used_by, ingress_name) ==
    IF Contains(used_by, ingress_name)
    THEN SubSeq(used_by, 1, (CHOOSE i \in 1..Len(used_by) : used_by[i] = ingress_name) - 1)
    ELSE used_by

\* [i.strip() for i in used_by.split(',') if i.strip() and i.strip() != ingress_name]
RemoveUsedBy(used_by, ingress_name) == Without(used_by, ingress_name)

\* json.dumps and json.loads: the blob is kept apart from the value it encodes
JsonDumps(v) == [json |-> v]
JsonLoads(s) == s.json

\* a blob that json.loads rejects with JSONDecodeError
CorruptBlob == [corrupt |-> TRUE]
IsJson(s) == "json" \in DOMAIN s

-----------------------------------------------------------------------------
(* Pure functions of app/utils.py.                                         *)

\* mutant: the presence of the key is taken for the flag
is_under_maintenance_KeyPresent(annotations) ==
    IF annotations = None \/ annotations = EmptyDict THEN FALSE
    ELSE MAINTENANCE_ANNOTATION \in DOMAIN annotations

is_under_maintenance(annotations) ==
    IF annotations = None \/ annotations = EmptyDict THEN FALSE
    ELSE Get(annotations, MAINTENANCE_ANNOTATION, NoString) = MAINTENANCE_ANNOTATION_VALUE

has_backup(annotations) ==
    annotations # EmptyDict /\ BACKUP_ANNOTATION \in DOMAIN annotations

get_fallback_html == "<html>Site Under Maintenance</html>"

\* mutant: 'default' is recognised in lower case only
get_html_content_CaseSensitive(custom_page) ==
    LET cm_name == IF custom_page # NoString /\ custom_page # "default"
                   THEN "maintenance-page-" \o custom_page
                   ELSE MAINTENANCE_CONFIGMAP_NAME
    IN IF cm_name \in DOMAIN OperatorPages
       THEN (IF OperatorPages[cm_name] = NoString THEN get_fallback_html
             ELSE OperatorPages[cm_name])
       ELSE get_fallback_html

get_html_content(custom_page) ==
    LET cm_name == IF custom_page # NoString /\ Lower(custom_page) # "default"
                   THEN "maintenance-page-" \o custom_page
                   ELSE MAINTENANCE_CONFIGMAP_NAME
    IN IF cm_name \in DOMAIN OperatorPages
       THEN (IF OperatorPages[cm_name] = NoString THEN get_fallback_html
             ELSE OperatorPages[cm_name])
       ELSE get_fallback_html

\* sha256(content).hexdigest()[:8], injective on the contents of the model
hash_content(content) ==
    CASE content = "<html>default</html>" -> "5d0f1a2b"
      [] content = "<html>blue</html>" -> "b1e00c3d"
      [] content = "<html>green</html>" -> "9e3e4f5a"
      [] OTHER -> "fa11bac6"

\* mutant: the set is named after the custom page, not after its content
ResourceName_ByPage(custom_page) == "maintenance-" \o custom_page

ResourceName(custom_page) == "maintenance-" \o hash_content(get_html_content(custom_page))

BackupName(name) == BACKUP_CONFIGMAP_PREFIX \o "-" \o name

\* mutant: the ConfigMap is created with an empty used-by
PageConfigMap_NoUsedBy(ingress_name, custom_page) ==
    [annotations |->
        [k \in {CUSTOM_PAGE_ANNOTATION, USED_BY_ANNOTATION} |->
            IF k = USED_BY_ANNOTATION THEN << >>
            ELSE <<IF custom_page # NoString THEN custom_page ELSE "default">>],
     data |-> [k \in {"index.html"} |-> get_html_content(custom_page)]]

\* the ConfigMap create_maintenance_resources builds
PageConfigMap(ingress_name, custom_page) ==
    [annotations |->
        [k \in {CUSTOM_PAGE_ANNOTATION, USED_BY_ANNOTATION} |->
            IF k = USED_BY_ANNOTATION THEN <<ingress_name>>
            ELSE <<IF custom_page # NoString THEN custom_page ELSE "default">>],
     data |-> [k \in {"index.html"} |-> get_html_content(custom_page)]]

\* the ConfigMap create_backup_configmap builds
BackupConfigMap(backup_data) ==
    [annotations |-> EmptyDict,
     data |-> [k \in {"backup"} |-> JsonDumps(backup_data)]]

UsedByOf(cm) == Get(cm.annotations, USED_BY_ANNOTATION, << >>)

-----------------------------------------------------------------------------
(* The rewrite of the rules (handle_ingress, both loops).                  *)

RewritePath(path, service_name) ==
    Put(path, "backend", Backend(service_name, MAINTENANCE_SERVICE_PORT))

RewriteRule(rule, service_name) ==
    LET http == Get(rule, "http", EmptyDict)
        paths == Get(http, "paths", << >>)
        new_paths == [i \in 1..Len(paths) |-> RewritePath(paths[i], service_name)]
    IN Put(rule, "http", [paths |-> new_paths])

RewriteRules(rules, service_name) ==
    [i \in 1..Len(rules) |-> RewriteRule(rules[i], service_name)]

-----------------------------------------------------------------------------
(* State.                                                                  *)

Cluster == [configmaps |-> configmaps, pods |-> pods, services |-> services,
            ingress |-> ingress]

IdleLoc ==
    [task |-> "none", rt |-> <<NoString, NoString>>, annotations |-> EmptyDict,
     spec |-> None, old |-> None, custom_page |-> NoString,
     resource_name |-> NoString, existing_cm |-> None, service_name |-> NoString,
     cm |-> None, ingresses |-> << >>, backup_data |-> None, handle |-> NoString,
     ret |-> NoString, rel_ret |-> NoString, failed |-> FALSE, pre |-> None,
     calls |-> << >>, errors |-> << >>, result |-> None, headers |-> EmptyDict]

\* the locals l after the API call named op has been made
Call(l, op) == [l EXCEPT !.calls = Append(@, op)]

NoCall == [op |-> "none", namespace |-> NoString, name |-> NoString,
           arg |-> NoString, handle |-> NoString]

Busy(rt) == \E w \in Workers : pc[w] # "idle" /\ loc[w].rt = rt

AllIdle == \A w \in Workers : pc[w] = "idle"

\* the Endpoint Reconciliation Worker between two cycles, none run so far
IdleRecon ==
    [pc |-> "sleep", observed |-> {}, todo |-> {}, listed |-> {}, outcome |-> "none",
     everFailed |-> FALSE, repaired |-> FALSE]

\* no ProxyRoutingTable and no worker process
InitProxy ==
    /\ tables = EmptyDict
    /\ live = {}
    /\ recon = IdleRecon

\* no IngressRoute and no Middleware
NoCustom == [ingressroutes |-> EmptyDict, middlewares |-> EmptyDict]

InitCluster ==
    /\ InitProxy
    /\ custom = NoCustom
    /\ configmaps = EmptyDict
    /\ pods = {}
    /\ services = {}
    /\ pc = [w \in Workers |-> "idle"]
    /\ loc = [w \in Workers |-> IdleLoc]
    /\ inputs = 0
    /\ lastCall = NoCall

\* every Route is NORMAL, without annotations, its creation event handled
Init ==
    /\ ingress \in [Routes -> {[annotations |-> EmptyDict, spec |-> s] : s \in IngressSpecs}]
    /\ prior = [rt \in Routes |-> None]
    /\ pending = [rt \in Routes |-> FALSE]
    /\ spec0 = [rt \in Routes |-> ingress[rt].spec]
    /\ trail = [rt \in Routes |-> << >>]
    /\ InitCluster

\* the cluster API applies a patch of an Ingress: the named fields are replaced
PatchIngress(obj, patch) ==
    [annotations |-> Get(patch, "annotations", obj.annotations),
     spec |-> [rules |-> Get(patch, "rules", obj.spec.rules),
               defaultBackend |-> Get(patch, "defaultBackend", obj.spec.defaultBackend)]]

\* a new revision of the Route rt: the watch layer will deliver it with the
\* revision it replaces as `old`
Revise(rt, obj) ==
    /\ ingress' = [ingress EXCEPT ![rt] = obj]
    /\ prior' = [prior EXCEPT ![rt] = [metadata |-> [annotations |-> ingress[rt].annotations]]]
    /\ pending' = [pending EXCEPT ![rt] = TRUE]

\* The user sets the maintenance annotation and sets or removes the custom
\* page, once the previous revision has been handled.
UserEdit(rt, enabled, custom_page, max) ==
    LET a1 == Put(ingress[rt].annotations, MAINTENANCE_ANNOTATION, enabled)
        a2 == IF custom_page = NoString THEN Pop(a1, CUSTOM_PAGE_ANNOTATION)
              ELSE Put(a1, CUSTOM_PAGE_ANNOTATION, custom_page)
    IN /\ inputs < max
       /\ ~pending[rt]
       /\ ~Busy(rt)
       /\ a2 # ingress[rt].annotations
       /\ Revise(rt, [ingress[rt] EXCEPT !.annotations = a2])
       /\ inputs' = inputs + 1
       /\ UNCHANGED <<proxyVars, custom, configmaps, pods, services, pc, loc, spec0, trail, lastCall>>

-----------------------------------------------------------------------------
(* handle_ingress: the entry, up to its first API call.                    *)

\* locals of a call create_maintenance_resources(namespace, ingress_name, custom_page)
StartAcquire(l, custom_page, ret) ==
    [l EXCEPT !.custom_page = custom_page,
              !.resource_name = ResourceName(custom_page),
              !.ret = ret]

\* locals of a call delete_maintenance_resources(namespace, ingress_name, service_name)
StartRelease(l, service_name, rel_ret) ==
    [l EXCEPT !.service_name = service_name, !.rel_ret = rel_ret]

\* mutant: every event of an ACTIVE Route is taken for a content switch
CustomPageChanged_Always(annotations, old) == TRUE

\* the test of the switch branch: the stripped custom-page annotation differs
\* from the one of the prior revision; without prior revision the old value is ''
CustomPageChanged(annotations, old) ==
    LET current_custom_page == Strip(Get(annotations, CUSTOM_PAGE_ANNOTATION, NoString))
        old_annotations == IF old # None THEN old.metadata.annotations ELSE EmptyDict
        old_custom_page == Strip(Get(old_annotations, CUSTOM_PAGE_ANNOTATION, NoString))
    IN current_custom_page # old_custom_page

\* handle_ingress is called by worker w with the current revision of rt and
\* the revision old.  serial: handlers run one at a time.
Handle(w, rt, old, serial) ==
    LET annotations == ingress[rt].annotations
        under_maintenance == is_under_maintenance(annotations)
        backup == has_backup(annotations)
        l0 == [IdleLoc EXCEPT !.rt = rt, !.annotations = annotations,
                              !.spec = ingress[rt].spec, !.old = old,
                              !.pre = Cluster]
        current_custom_page == Strip(Get(annotations, CUSTOM_PAGE_ANNOTATION, NoString))
        old_annotations == IF old # None THEN old.metadata.annotations ELSE EmptyDict
        old_service_name == Get(old_annotations, SERVICE_NAME_ANNOTATION, NoString)
        noop == [l0 EXCEPT !.task = "noop"]
        l1 == StartAcquire([l0 EXCEPT !.task = "switch"], current_custom_page, "patch_switch")
    IN /\ pc[w] = "idle"
       /\ ~Busy(rt)
       /\ serial => (AllIdle /\ w = FirstWorker)
       /\ pending' = [pending EXCEPT ![rt] = FALSE]
       /\ IF under_maintenance /\ ~backup
          THEN /\ pc' = [pc EXCEPT ![w] = "create_backup"]
               /\ loc' = [loc EXCEPT ![w] = [l0 EXCEPT !.task = "enable"]]
          ELSE IF under_maintenance /\ backup
          THEN IF CustomPageChanged(annotations, old)
               THEN IF old_service_name # NoString
                    THEN /\ pc' = [pc EXCEPT ![w] = "rel_read"]
                         /\ loc' = [loc EXCEPT ![w] = StartRelease(l1, old_service_name, "acq_read")]
                    ELSE /\ pc' = [pc EXCEPT ![w] = "acq_read"]
                         /\ loc' = [loc EXCEPT ![w] = l1]
               ELSE /\ pc' = [pc EXCEPT ![w] = "done"]
                    /\ loc' = [loc EXCEPT ![w] = noop]
          ELSE IF ~under_maintenance /\ backup
          THEN /\ pc' = [pc EXCEPT ![w] = "get_backup"]
               /\ loc' = [loc EXCEPT ![w] = [l0 EXCEPT !.task = "disable"]]
          ELSE /\ pc' = [pc EXCEPT ![w] = "done"]
               /\ loc' = [loc EXCEPT ![w] = noop]
       /\ UNCHANGED <<proxyVars, custom, ingress, prior, configmaps, pods, services, inputs, spec0, trail, lastCall>>

\* The watch layer delivers the current revision of rt with the prior one.
Deliver(w, rt, serial) == Handle(w, rt, prior[rt], serial)

\* The watch layer delivers the current revision of rt without a prior one,
\* as it does for an object it sees for the first time.
DeliverNew(w, rt) == Handle(w, rt, None, TRUE)

-----------------------------------------------------------------------------
(* create_backup_configmap, get_backup_configmap, delete_backup_configmap. *)

\* mutant: a 409 of the create leaves the existing record as it is
SaveBackup_KeepOn409(cms, namespace, name, backup_data) ==
    LET key == <<namespace, BackupName(name)>>
    IN IF key \notin DOMAIN cms THEN Put(cms, key, BackupConfigMap(backup_data)) ELSE cms

\* the ConfigMaps after create_backup_configmap(name, namespace, backup_data):
\* created, or on 409 patched with the same body
SaveBackup(cms, namespace, name, backup_data) ==
    LET key == <<namespace, BackupName(name)>>
        body == BackupConfigMap(backup_data)
    IN IF key \notin DOMAIN cms
       THEN Put(cms, key, body)
       ELSE Put(cms, key, [cms[key] EXCEPT !.data = Put(cms[key].data, "backup", body.data["backup"])])

\* mutant: a 404 of the read yields an empty dict
LoadBackup_EmptyOn404(cms, namespace, name) ==
    LET key == <<namespace, BackupName(name)>>
    IN IF key \in DOMAIN cms
       THEN JsonLoads(Get(cms[key].data, "backup", JsonDumps(EmptyDict)))
       ELSE EmptyDict

\* get_backup_configmap(name, namespace): the parsed blob, None on 404
LoadBackup(cms, namespace, name) ==
    LET key == <<namespace, BackupName(name)>>
    IN IF key \in DOMAIN cms
       THEN JsonLoads(Get(cms[key].data, "backup", JsonDumps(EmptyDict)))
       ELSE None

\* json.loads accepts the blob get_backup_configmap(name, namespace) reads
BackupParses(cms, namespace, name) ==
    LET key == <<namespace, BackupName(name)>>
    IN key \in DOMAIN cms => IsJson(Get(cms[key].data, "backup", JsonDumps(EmptyDict)))

\* the ConfigMaps after delete_backup_configmap(name, namespace); 404 is ignored
DropBackup(cms, namespace, name) == Pop(cms, <<namespace, BackupName(name)>>)

\* enable, first call: back up rules and defaultBackend, then call acquire
\* with the raw custom-page annotation
CreateBackup(w) ==
    LET l == Call(loc[w], "create_backup")
        backup_data == [rules |-> l.spec.rules, defaultBackend |-> l.spec.defaultBackend]
        custom_page == Get(l.annotations, CUSTOM_PAGE_ANNOTATION, NoString)
    IN /\ pc[w] = "create_backup"
       /\ configmaps' = SaveBackup(configmaps, l.rt[1], l.rt[2], backup_data)
       /\ loc' = [loc EXCEPT ![w] = StartAcquire(l, custom_page, "patch_enable")]
       /\ pc' = [pc EXCEPT ![w] = "acq_read"]
       /\ UNCHANGED <<proxyVars, custom, ingress, prior, pending, pods, services, inputs, spec0, trail, lastCall>>

\* mutant: the BackupRecord is deleted as soon as it has been loaded
GetBackup_DeleteFirst(w) ==
    LET l == Call(loc[w], "get_backup")
        backup_data == LoadBackup(configmaps, l.rt[1], l.rt[2])
    IN /\ pc[w] = "get_backup"
       /\ backup_data # None
       /\ loc' = [loc EXCEPT ![w] =
                    [l EXCEPT !.backup_data = backup_data,
                              !.service_name = Get(l.annotations, SERVICE_NAME_ANNOTATION, NoString)]]
       /\ configmaps' = DropBackup(configmaps, l.rt[1], l.rt[2])
       /\ pc' = [pc EXCEPT ![w] = "patch_disable"]
       /\ UNCHANGED <<proxyVars, custom, ingress, prior, pending, pods, services, inputs, spec0, trail, lastCall>>

\* disable, first call: load the backup; without one the handler does
\* nothing, and the JSONDecodeError of a blob that does not parse is not caught
GetBackup(w) ==
    LET l == Call(loc[w], "get_backup")
        backup_data == LoadBackup(configmaps, l.rt[1], l.rt[2])
    IN /\ pc[w] = "get_backup"
       /\ IF ~BackupParses(configmaps, l.rt[1], l.rt[2])
          THEN /\ loc' = [loc EXCEPT ![w] = [l EXCEPT !.failed = TRUE]]
               /\ pc' = [pc EXCEPT ![w] = "done"]
          ELSE IF backup_data # None /\ backup_data # EmptyDict
          THEN /\ loc' = [loc EXCEPT ![w] =
                            [l EXCEPT !.backup_data = backup_data,
                                      !.service_name = Get(l.annotations, SERVICE_NAME_ANNOTATION, NoString)]]
               /\ pc' = [pc EXCEPT ![w] = "patch_disable"]
          ELSE /\ loc' = [loc EXCEPT ![w] = [l EXCEPT !.task = "disable_skipped"]]
               /\ pc' = [pc EXCEPT ![w] = "done"]
       /\ UNCHANGED <<proxyVars, custom, ingress, prior, pending, configmaps, pods, services, inputs, spec0, trail, lastCall>>

\* disable, after the Ingress patch: delete the backup, then release the set
\* named by the service-name annotation, if any
DeleteBackup(w) ==
    LET l == Call(loc[w], "delete_backup")
    IN /\ pc[w] = "delete_backup"
       /\ configmaps' = DropBackup(configmaps, l.rt[1], l.rt[2])
       /\ IF l.service_name # NoString
          THEN /\ pc' = [pc EXCEPT ![w] = "rel_read"]
               /\ loc' = [loc EXCEPT ![w] = StartRelease(l, l.service_name, "done")]
          ELSE /\ pc' = [pc EXCEPT ![w] = "done"]
               /\ loc' = [loc EXCEPT ![w] = l]
       /\ UNCHANGED <<proxyVars, custom, ingress, prior, pending, pods, services, inputs, spec0, trail, lastCall>>

-----------------------------------------------------------------------------
(* create_maintenance_resources, one action per API call.                  *)

\* read the ConfigMap named after the content hash; patch it when the name
\* has to be added to used-by, create it on 404
AcqRead(w) ==
    LET l == Call(loc[w], "acq_read")
        key == <<l.rt[1], l.resource_name>>
        existing_cm == configmaps[key]
        used_by == UsedByOf(existing_cm)
        new_used_by == AddUsedBy(used_by, l.rt[2])
    IN /\ pc[w] = "acq_read"
       /\ IF key \in DOMAIN configmaps
          THEN IF new_used_by # used_by
               THEN /\ loc' = [loc EXCEPT ![w] =
                                 [l EXCEPT !.existing_cm =
                                    [existing_cm EXCEPT !.annotations =
                                        Put(existing_cm.annotations, USED_BY_ANNOTATION,
                                            new_used_by)]]]
                    /\ pc' = [pc EXCEPT ![w] = "acq_patch"]
               ELSE /\ loc' = [loc EXCEPT ![w] = l]
                    /\ pc' = [pc EXCEPT ![w] = "acq_pod"]
          ELSE /\ loc' = [loc EXCEPT ![w] = l]
               /\ pc' = [pc EXCEPT ![w] = "acq_create"]
       /\ UNCHANGED <<proxyVars, custom, ingress, prior, pending, configmaps, pods, services, inputs, spec0, trail, lastCall>>

\* patch the ConfigMap with the object read, its used-by extended; a 404 of
\* the patch is caught by the same except clause as a 404 of the read
AcqPatch(w) ==
    LET l == Call(loc[w], "acq_patch")
        key == <<l.rt[1], l.resource_name>>
    IN /\ pc[w] = "acq_patch"
       /\ IF key \in DOMAIN configmaps
          THEN /\ configmaps' = Put(configmaps, key, l.existing_cm)
               /\ pc' = [pc EXCEPT ![w] = "acq_pod"]
          ELSE /\ configmaps' = configmaps
               /\ pc' = [pc EXCEPT ![w] = "acq_create"]
       /\ loc' = [loc EXCEPT ![w] = l]
       /\ UNCHANGED <<proxyVars, custom, ingress, prior, pending, pods, services, inputs, spec0, trail, lastCall>>

\* create the ConfigMap; a 409 is raised out of the handler
AcqCreate(w) ==
    LET l == Call(loc[w], "acq_create")
        key == <<l.rt[1], l.resource_name>>
    IN /\ pc[w] = "acq_create"
       /\ IF key \notin DOMAIN configmaps
          THEN /\ configmaps' = Put(configmaps, key, PageConfigMap(l.rt[2], l.custom_page))
               /\ loc' = [loc EXCEPT ![w] = l]
               /\ pc' = [pc EXCEPT ![w] = "acq_pod"]
          ELSE /\ configmaps' = configmaps
               /\ loc' = [loc EXCEPT ![w] = [l EXCEPT !.failed = TRUE]]
               /\ pc' = [pc EXCEPT ![w] = "done"]
       /\ UNCHANGED <<proxyVars, custom, ingress, prior, pending, pods, services, inputs, spec0, trail, lastCall>>

\* create the Pod; 409 is tolerated
AcqPod(w) ==
    LET l == Call(loc[w], "acq_pod")
    IN /\ pc[w] = "acq_pod"
       /\ pods' = pods \cup {<<l.rt[1], l.resource_name>>}
       /\ pc' = [pc EXCEPT ![w] = "acq_svc"]
       /\ loc' = [loc EXCEPT ![w] = l]
       /\ UNCHANGED <<proxyVars, custom, ingress, prior, pending, configmaps, services, inputs, spec0, trail, lastCall>>

\* create the Service; 409 is tolerated; return resource_name
AcqSvc(w) ==
    LET l == Call(loc[w], "acq_svc")
    IN /\ pc[w] = "acq_svc"
       /\ services' = services \cup {<<l.rt[1], l.resource_name>>}
       /\ loc' = [loc EXCEPT ![w] = [l EXCEPT !.handle = l.resource_name]]
       /\ pc' = [pc EXCEPT ![w] = l.ret]
       /\ UNCHANGED <<proxyVars, custom, ingress, prior, pending, configmaps, pods, inputs, spec0, trail, lastCall>>

-----------------------------------------------------------------------------
(* delete_maintenance_resources, one action per API call.                  *)

\* mutant: the call returns without having read or changed anything
RelRead_ReturnsAtOnce(w) ==
    /\ pc[w] = "rel_read"
    /\ pc' = [pc EXCEPT ![w] = loc[w].rel_ret]
    /\ UNCHANGED <<proxyVars, custom, ingress, prior, pending, configmaps, pods, services, loc, inputs, spec0, trail, lastCall>>

\* mutant: the 404 of the read is raised to the caller
RelRead_Raise404(w) ==
    LET l == Call(loc[w], "rel_read")
        key == <<l.rt[1], l.service_name>>
        cm == configmaps[key]
        ingresses == RemoveUsedBy(UsedByOf(cm), l.rt[2])
    IN /\ pc[w] = "rel_read"
       /\ IF key \in DOMAIN configmaps
          THEN /\ loc' = [loc EXCEPT ![w] =
                            [l EXCEPT !.ingresses = ingresses,
                                      !.cm = [cm EXCEPT !.annotations =
                                                Put(cm.annotations, USED_BY_ANNOTATION, ingresses)]]]
               /\ pc' = [pc EXCEPT ![w] = IF ingresses # << >> THEN "rel_patch" ELSE "rel_delete_pod"]
          ELSE /\ loc' = [loc EXCEPT ![w] = [l EXCEPT !.failed = TRUE]]
               /\ pc' = [pc EXCEPT ![w] = "done"]
       /\ UNCHANGED <<proxyVars, custom, ingress, prior, pending, configmaps, pods, services, inputs, spec0, trail, lastCall>>

\* read the ConfigMap; 404 ends the call
RelRead(w) ==
    LET l == Call(loc[w], "rel_read")
        key == <<l.rt[1], l.service_name>>
        cm == configmaps[key]
        ingresses == RemoveUsedBy(UsedByOf(cm), l.rt[2])
    IN /\ pc[w] = "rel_read"
       /\ IF key \in DOMAIN configmaps
          THEN /\ loc' = [loc EXCEPT ![w] =
                            [l EXCEPT !.ingresses = ingresses,
                                      !.cm = [cm EXCEPT !.annotations =
                                                Put(cm.annotations, USED_BY_ANNOTATION, ingresses)]]]
               /\ pc' = [pc EXCEPT ![w] = IF ingresses # << >> THEN "rel_patch" ELSE "rel_delete_pod"]
          ELSE /\ loc' = [loc EXCEPT ![w] = l]
               /\ pc' = [pc EXCEPT ![w] = l.rel_ret]
       /\ UNCHANGED <<proxyVars, custom, ingress, prior, pending, configmaps, pods, services, inputs, spec0, trail, lastCall>>

\* still in use: patch the ConfigMap with the shortened used-by and return;
\* an error of the patch is logged
RelPatch(w) ==
    LET l == Call(loc[w], "rel_patch")
        key == <<l.rt[1], l.service_name>>
    IN /\ pc[w] = "rel_patch"
       /\ configmaps' = IF key \in DOMAIN configmaps THEN Put(configmaps, key, l.cm)
                        ELSE configmaps
       /\ pc' = [pc EXCEPT ![w] = l.rel_ret]
       /\ loc' = [loc EXCEPT ![w] = l]
       /\ UNCHANGED <<proxyVars, custom, ingress, prior, pending, pods, services, inputs, spec0, trail, lastCall>>

\* mutant: a 404 of the Pod delete ends the call
RelDeletePod_Stop404(w) ==
    LET l == Call(loc[w], "rel_delete_pod")
    IN /\ pc[w] = "rel_delete_pod"
       /\ pods' = pods \ {<<l.rt[1], l.service_name>>}
       /\ pc' = [pc EXCEPT ![w] = IF <<l.rt[1], l.service_name>> \in pods
                                  THEN "rel_delete_svc" ELSE l.rel_ret]
       /\ loc' = [loc EXCEPT ![w] = l]
       /\ UNCHANGED <<proxyVars, custom, ingress, prior, pending, configmaps, services, inputs, spec0, trail, lastCall>>

\* delete the Pod, then the Service, then the ConfigMap; each 404 is ignored
RelDeletePod(w) ==
    LET l == Call(loc[w], "rel_delete_pod")
    IN /\ pc[w] = "rel_delete_pod"
       /\ pods' = pods \ {<<l.rt[1], l.service_name>>}
       /\ pc' = [pc EXCEPT ![w] = "rel_delete_svc"]
       /\ loc' = [loc EXCEPT ![w] = l]
       /\ UNCHANGED <<proxyVars, custom, ingress, prior, pending, configmaps, services, inputs, spec0, trail, lastCall>>

\* mutant: the Service is left behind
RelDeleteSvc_Skip(w) ==
    /\ pc[w] = "rel_delete_svc"
    /\ pc' = [pc EXCEPT ![w] = "rel_delete_cm"]
    /\ UNCHANGED <<proxyVars, custom, ingress, prior, pending, configmaps, pods, services, loc, inputs, spec0, trail, lastCall>>

RelDeleteSvc(w) ==
    LET l == Call(loc[w], "rel_delete_svc")
    IN /\ pc[w] = "rel_delete_svc"
       /\ services' = services \ {<<l.rt[1], l.service_name>>}
       /\ pc' = [pc EXCEPT ![w] = "rel_delete_cm"]
       /\ loc' = [loc EXCEPT ![w] = l]
       /\ UNCHANGED <<proxyVars, custom, ingress, prior, pending, configmaps, pods, inputs, spec0, trail, lastCall>>

\* mutant: the ConfigMap of that name is deleted in every namespace
RelDeleteCm_EveryNamespace(w) ==
    LET l == Call(loc[w], "rel_delete_cm")
    IN /\ pc[w] = "rel_delete_cm"
       /\ configmaps' = [k \in {j \in DOMAIN configmaps : j[2] # l.service_name} |-> configmaps[k]]
       /\ pc' = [pc EXCEPT ![w] = l.rel_ret]
       /\ loc' = [loc EXCEPT ![w] = l]
       /\ UNCHANGED <<proxyVars, custom, ingress, prior, pending, pods, services, inputs, spec0, trail, lastCall>>

RelDeleteCm(w) ==
    LET l == Call(loc[w], "rel_delete_cm")
    IN /\ pc[w] = "rel_delete_cm"
       /\ configmaps' = Pop(configmaps, <<l.rt[1], l.service_name>>)
       /\ pc' = [pc EXCEPT ![w] = l.rel_ret]
       /\ loc' = [loc EXCEPT ![w] = l]
       /\ UNCHANGED <<proxyVars, custom, ingress, prior, pending, pods, services, inputs, spec0, trail, lastCall>>

-----------------------------------------------------------------------------
(* handle_ingress: the patches of the Ingress.                             *)

\* mutant: the enable branch sets the annotations and leaves the rules alone
EnablePatch_NoRewrite(annotations, spec, maintenance_service_name) ==
    [annotations |-> Put(Put(annotations, BACKUP_ANNOTATION, "true"),
                         SERVICE_NAME_ANNOTATION, maintenance_service_name)]

\* mutant: the defaultBackend is rewritten whether or not there are rules
EnablePatch_DefaultToo(annotations, spec, maintenance_service_name) ==
    LET new_backend == Backend(maintenance_service_name, MAINTENANCE_SERVICE_PORT)
        new_rules == IF spec.rules # << >>
                     THEN RewriteRules(spec.rules, maintenance_service_name) ELSE << >>
        new_annotations == Put(Put(annotations, BACKUP_ANNOTATION, "true"),
                               SERVICE_NAME_ANNOTATION, maintenance_service_name)
    IN [annotations |-> new_annotations,
        rules |-> IF new_rules # << >> THEN new_rules ELSE spec.rules,
        defaultBackend |-> new_backend]

\* the patch body of the enable branch
EnablePatch(annotations, spec, maintenance_service_name) ==
    LET new_backend == Backend(maintenance_service_name, MAINTENANCE_SERVICE_PORT)
        new_rules == IF spec.rules # << >>
                     THEN RewriteRules(spec.rules, maintenance_service_name) ELSE << >>
        new_annotations == Put(Put(annotations, BACKUP_ANNOTATION, "true"),
                               SERVICE_NAME_ANNOTATION, maintenance_service_name)
    IN [annotations |-> new_annotations,
        rules |-> IF new_rules # << >> THEN new_rules ELSE spec.rules,
        defaultBackend |-> IF new_rules = << >> THEN new_backend ELSE spec.defaultBackend]

\* the patch body of the content-switch branch: no defaultBackend
SwitchPatch(annotations, spec, new_service_name) ==
    LET new_rules == IF spec.rules # << >>
                     THEN RewriteRules(spec.rules, new_service_name) ELSE << >>
        new_annotations == Put(annotations, SERVICE_NAME_ANNOTATION, new_service_name)
    IN [annotations |-> new_annotations,
        rules |-> IF new_rules # << >> THEN new_rules ELSE spec.rules]

\* mutant: the disable branch clears the annotations and leaves the rules alone
DisablePatch_NoRestore(annotations, backup_data) ==
    [annotations |-> Pop(Pop(annotations, BACKUP_ANNOTATION), SERVICE_NAME_ANNOTATION)]

\* the patch body of the disable branch
DisablePatch(annotations, backup_data) ==
    [annotations |-> Pop(Pop(annotations, BACKUP_ANNOTATION), SERVICE_NAME_ANNOTATION),
     rules |-> Get(backup_data, "rules", << >>),
     defaultBackend |-> Get(backup_data, "defaultBackend", None)]

PatchEnable(w) ==
    LET l == Call(loc[w], "patch_enable")
    IN /\ pc[w] = "patch_enable"
       /\ Revise(l.rt, PatchIngress(ingress[l.rt], EnablePatch(l.annotations, l.spec, l.handle)))
       /\ pc' = [pc EXCEPT ![w] = "done"]
       /\ loc' = [loc EXCEPT ![w] = l]
       /\ UNCHANGED <<proxyVars, custom, configmaps, pods, services, inputs, spec0, trail, lastCall>>

PatchSwitch(w) ==
    LET l == Call(loc[w], "patch_switch")
    IN /\ pc[w] = "patch_switch"
       /\ Revise(l.rt, PatchIngress(ingress[l.rt], SwitchPatch(l.annotations, l.spec, l.handle)))
       /\ pc' = [pc EXCEPT ![w] = "done"]
       /\ loc' = [loc EXCEPT ![w] = l]
       /\ UNCHANGED <<proxyVars, custom, configmaps, pods, services, inputs, spec0, trail, lastCall>>

\* mutant: the disable branch releases the set before it deletes the backup
PatchDisable_ThenRelease(w) ==
    LET l == Call(loc[w], "patch_disable")
    IN /\ pc[w] = "patch_disable"
       /\ Revise(l.rt, PatchIngress(ingress[l.rt], DisablePatch(l.annotations, l.backup_data)))
       /\ pc' = [pc EXCEPT ![w] = "rel_read"]
       /\ loc' = [loc EXCEPT ![w] = StartRelease(l, l.service_name, "delete_backup")]
       /\ UNCHANGED <<proxyVars, custom, configmaps, pods, services, inputs, spec0, trail, lastCall>>

PatchDisable(w) ==
    LET l == Call(loc[w], "patch_disable")
    IN /\ pc[w] = "patch_disable"
       /\ Revise(l.rt, PatchIngress(ingress[l.rt], DisablePatch(l.annotations, l.backup_data)))
       /\ pc' = [pc EXCEPT ![w] = "delete_backup"]
       /\ loc' = [loc EXCEPT ![w] = l]
       /\ UNCHANGED <<proxyVars, custom, configmaps, pods, services, inputs, spec0, trail, lastCall>>

-----------------------------------------------------------------------------
(* The end of a handler or of a direct call.                               *)

\* the transitions handled since the Route was last NORMAL
NextTrail(t, l) ==
    IF l.failed THEN t
    ELSE CASE l.task = "enable" -> <<"enable">>
           [] l.task = "switch" -> IF Contains(t, "switch") THEN t ELSE Append(t, "switch")
           [] l.task = "disable" -> << >>
           [] OTHER -> t

\* the operations of app/utils.py that are called directly
DirectCalls == {"acquire", "release", "save_backup", "load_backup", "drop_backup"}

\* The handler returns or raises; the watch layer redelivers the event of a
\* handler that raised.
Return(w) ==
    LET l == loc[w]
    IN /\ pc[w] = "done"
       /\ pc' = [pc EXCEPT ![w] = "idle"]
       /\ loc' = [loc EXCEPT ![w] = IdleLoc]
       /\ trail' = IF l.rt \in Routes /\ l.task \in {"enable", "switch", "disable"}
                   THEN [trail EXCEPT ![l.rt] = NextTrail(trail[l.rt], l)]
                   ELSE trail
       /\ lastCall' = IF l.task \in DirectCalls
                      THEN [op |-> l.task, namespace |-> l.rt[1], name |-> l.rt[2],
                            arg |-> CASE l.task = "acquire" -> l.custom_page
                                      [] l.task = "release" -> l.service_name
                                      [] OTHER -> l.backup_data,
                            handle |-> l.handle]
                      ELSE lastCall
       /\ pending' = IF l.rt \in Routes /\ l.failed
                     THEN [pending EXCEPT ![l.rt] = TRUE] ELSE pending
       /\ UNCHANGED <<proxyVars, custom, ingress, prior, configmaps, pods, services, inputs, spec0>>

-----------------------------------------------------------------------------
(* Direct calls of the two operations of the resource lifecycle manager,   *)
(* as the unit tests make them.                                            *)

\* the handles a caller may pass to release
Handles == {ResourceName(p) : p \in ApiPages}

CallAcquire(w, namespace, ingress_name, custom_page, serial) ==
    /\ pc[w] = "idle"
    /\ ~Busy(<<namespace, ingress_name>>)
    /\ IF serial THEN AllIdle /\ w = FirstWorker /\ inputs' = inputs
       ELSE inputs < MaxConcCalls /\ inputs' = inputs + 1
    /\ loc' = [loc EXCEPT ![w] =
                 StartAcquire([IdleLoc EXCEPT !.task = "acquire",
                                              !.rt = <<namespace, ingress_name>>,
                                              !.pre = Cluster],
                              custom_page, "done")]
    /\ pc' = [pc EXCEPT ![w] = "acq_read"]
    /\ UNCHANGED <<proxyVars, custom, ingress, prior, pending, configmaps, pods, services, spec0, trail, lastCall>>

CallRelease(w, namespace, ingress_name, service_name, serial) ==
    /\ pc[w] = "idle"
    /\ ~Busy(<<namespace, ingress_name>>)
    /\ IF serial THEN AllIdle /\ w = FirstWorker /\ inputs' = inputs
       ELSE inputs < MaxConcCalls /\ inputs' = inputs + 1
    /\ loc' = [loc EXCEPT ![w] =
                 StartRelease([IdleLoc EXCEPT !.task = "release",
                                              !.rt = <<namespace, ingress_name>>,
                                              !.pre = Cluster],
                              service_name, "done")]
    /\ pc' = [pc EXCEPT ![w] = "rel_read"]
    /\ UNCHANGED <<proxyVars, custom, ingress, prior, pending, configmaps, pods, services, spec0, trail, lastCall>>

\* the BackupRecords a caller may save
BackupDatas == {[rules |-> s.rules, defaultBackend |-> s.defaultBackend] : s \in IngressSpecs}

\* the locals of a direct call of an operation of the backup store
BackupCall(task, namespace, name) ==
    [IdleLoc EXCEPT !.task = task, !.rt = <<namespace, name>>, !.pre = Cluster]

\* create_backup_configmap(name, namespace, backup_data): the create, and on
\* 409 the patch
CallSaveBackup(w, namespace, name, backup_data) ==
    LET l == Call([BackupCall("save_backup", namespace, name) EXCEPT !.backup_data = backup_data],
                  "create_backup")
    IN /\ AllIdle /\ w = FirstWorker
       /\ configmaps' = SaveBackup(configmaps, namespace, name, backup_data)
       /\ loc' = [loc EXCEPT ![w] = IF <<namespace, BackupName(name)>> \in DOMAIN configmaps
                                    THEN Call(l, "patch_backup") ELSE l]
       /\ pc' = [pc EXCEPT ![w] = "done"]
       /\ UNCHANGED <<proxyVars, custom, ingress, prior, pending, pods, services, inputs, spec0, trail, lastCall>>

\* get_backup_configmap(name, namespace): the value returned is kept in backup_data
CallLoadBackup(w, namespace, name) ==
    LET l == Call(BackupCall("load_backup", namespace, name), "get_backup")
    IN /\ AllIdle /\ w = FirstWorker
       /\ loc' = [loc EXCEPT ![w] = [l EXCEPT !.backup_data = LoadBackup(configmaps, namespace, name)]]
       /\ pc' = [pc EXCEPT ![w] = "done"]
       /\ UNCHANGED <<proxyVars, custom, ingress, prior, pending, configmaps, pods, services, inputs, spec0, trail, lastCall>>

\* mutant: the 404 of the delete is raised to the caller
CallDropBackup_Raise404(w, namespace, name) ==
    LET l == Call(BackupCall("drop_backup", namespace, name), "delete_backup")
    IN /\ AllIdle /\ w = FirstWorker
       /\ configmaps' = DropBackup(configmaps, namespace, name)
       /\ loc' = [loc EXCEPT ![w] =
                    [l EXCEPT !.failed = <<namespace, BackupName(name)>> \notin DOMAIN configmaps]]
       /\ pc' = [pc EXCEPT ![w] = "done"]
       /\ UNCHANGED <<proxyVars, custom, ingress, prior, pending, pods, services, inputs, spec0, trail, lastCall>>

\* delete_backup_configmap(name, namespace)
CallDropBackup(w, namespace, name) ==
    LET l == Call(BackupCall("drop_backup", namespace, name), "delete_backup")
    IN /\ AllIdle /\ w = FirstWorker
       /\ configmaps' = DropBackup(configmaps, namespace, name)
       /\ loc' = [loc EXCEPT ![w] = l]
       /\ pc' = [pc EXCEPT ![w] = "done"]
       /\ UNCHANGED <<proxyVars, custom, ingress, prior, pending, pods, services, inputs, spec0, trail, lastCall>>

-----------------------------------------------------------------------------
(* Specifications.                                                         *)

AcquireStep(w) == AcqRead(w) \/ AcqPatch(w) \/ AcqCreate(w) \/ AcqPod(w) \/ AcqSvc(w)

ReleaseStep(w) ==
    RelRead(w) \/ RelPatch(w) \/ RelDeletePod(w) \/ RelDeleteSvc(w) \/ RelDeleteCm(w)

HandlerStep(w) ==
    \/ CreateBackup(w) \/ GetBackup(w) \/ DeleteBackup(w)
    \/ PatchEnable(w) \/ PatchSwitch(w) \/ PatchDisable(w)
    \/ AcquireStep(w) \/ ReleaseStep(w) \/ Return(w)

User(max) ==
    \E rt \in Routes, enabled \in EnabledValues, custom_page \in CustomPages \cup {NoString} :
        UserEdit(rt, enabled, custom_page, max)

\* handlers run one at a time
Next ==
    \/ User(MaxEdits)
    \/ \E w \in Workers, rt \in Routes : Deliver(w, rt, TRUE)
    \/ \E w \in Workers : HandlerStep(w)

Spec == Init /\ [][Next]_vars

\* handlers of different Routes interleave between their API calls
NextConc ==
    \/ User(MaxConcEdits)
    \/ \E w \in Workers, rt \in Routes : Deliver(w, rt, FALSE)
    \/ \E w \in Workers : HandlerStep(w)

\* both Routes start with the one-rule spec
InitConc ==
    /\ Init
    /\ \A rt \in Routes : Len(ingress[rt].spec.rules) = 1

SpecConc == InitConc /\ [][NextConc]_vars

\* direct calls of acquire and release, one at a time, from an empty cluster
InitApi ==
    /\ ingress = [rt \in Routes |-> [annotations |-> EmptyDict,
                                     spec |-> [rules |-> << >>, defaultBackend |-> None]]]
    /\ prior = [rt \in Routes |-> None]
    /\ pending = [rt \in Routes |-> FALSE]
    /\ spec0 = [rt \in Routes |-> ingress[rt].spec]
    /\ trail = [rt \in Routes |-> << >>]
    /\ InitCluster

NextApi ==
    \/ \E w \in Workers, ns \in ApiNamespaces, n \in ApiNames, p \in ApiPages :
          CallAcquire(w, ns, n, p, TRUE)
    \/ \E w \in Workers, ns \in ApiNamespaces, n \in ApiNames, h \in Handles :
          CallRelease(w, ns, n, h, TRUE)
    \/ \E w \in Workers : AcquireStep(w) \/ ReleaseStep(w) \/ Return(w)

SpecApi == InitApi /\ [][NextApi]_vars

\* direct calls for different Routes interleave between their API calls
NextApiConc ==
    \/ \E w \in Workers, ns \in ApiNamespaces, n \in ApiNames, p \in ApiPages :
          CallAcquire(w, ns, n, p, FALSE)
    \/ \E w \in Workers, ns \in ApiNamespaces, n \in ApiNames, h \in Handles :
          CallRelease(w, ns, n, h, FALSE)
    \/ \E w \in Workers : AcquireStep(w) \/ ReleaseStep(w) \/ Return(w)

SpecApiConc == InitApi /\ [][NextApiConc]_vars

\* The BackupRecord of a Route is deleted from outside the operator.
LoseBackup(rt) ==
    /\ AllIdle
    /\ <<rt[1], BackupName(rt[2])>> \in DOMAIN configmaps
    /\ configmaps' = Pop(configmaps, <<rt[1], BackupName(rt[2])>>)
    /\ UNCHANGED <<proxyVars, custom, ingress, prior, pending, pods, services, pc, loc, inputs, spec0, trail, lastCall>>

\* handlers run one at a time, and BackupRecords can be lost
NextLost ==
    \/ Next
    \/ \E rt \in Routes : LoseBackup(rt)

SpecLost == Init /\ [][NextLost]_vars

\* The blob of the BackupRecord of a Route is overwritten from outside the
\* operator with text that is not JSON.
CorruptBackup(rt) ==
    LET key == <<rt[1], BackupName(rt[2])>>
    IN /\ AllIdle
       /\ key \in DOMAIN configmaps
       /\ IsJson(configmaps[key].data["backup"])
       /\ configmaps' = Put(configmaps, key,
                            [configmaps[key] EXCEPT !.data = Put(@, "backup", CorruptBlob)])
       /\ UNCHANGED <<proxyVars, custom, ingress, prior, pending, pods, services, pc, loc, inputs, spec0, trail, lastCall>>

\* handlers run one at a time, and BackupRecords can be corrupted
NextCorrupt ==
    \/ Next
    \/ \E rt \in Routes : CorruptBackup(rt)

SpecCorrupt == Init /\ [][NextCorrupt]_vars

\* handlers run one at a time, and events can come without prior revision
NextNew ==
    \/ Next
    \/ \E w \in Workers, rt \in Routes : DeliverNew(w, rt)

SpecNew == Init /\ [][NextNew]_vars

\* A Pod, a Service or a content holder of a set is deleted from outside the
\* operator, at any time.
LosePart(kind, key) ==
    /\ inputs < MaxLosses
    /\ inputs' = inputs + 1
    /\ CASE kind = "pod" -> key \in pods
         [] kind = "service" -> key \in services
         [] OTHER -> key \in DOMAIN configmaps
    /\ pods' = IF kind = "pod" THEN pods \ {key} ELSE pods
    /\ services' = IF kind = "service" THEN services \ {key} ELSE services
    /\ configmaps' = IF kind = "configmap" THEN Pop(configmaps, key) ELSE configmaps
    /\ UNCHANGED <<proxyVars, custom, ingress, prior, pending, pc, loc, spec0, trail, lastCall>>

\* the Route names of the direct calls when parts of sets can be lost
PartialNames == {"r1", "r2"}

\* direct calls of acquire and release, one at a time, and parts of sets can
\* be lost
NextPartial ==
    \/ \E w \in Workers, ns \in ApiNamespaces, n \in PartialNames, p \in ApiPages :
          CallAcquire(w, ns, n, p, TRUE)
    \/ \E w \in Workers, ns \in ApiNamespaces, n \in PartialNames, h \in Handles :
          CallRelease(w, ns, n, h, TRUE)
    \/ \E w \in Workers : AcquireStep(w) \/ ReleaseStep(w) \/ Return(w)
    \/ \E kind \in {"pod", "service", "configmap"}, ns \in ApiNamespaces, h \in Handles :
          LosePart(kind, <<ns, h>>)

SpecPartial == InitApi /\ [][NextPartial]_vars

\* the annotations is_under_maintenance is applied to: None, the empty dict,
\* dicts without the maintenance key and dicts that give it a value
FlagValues == {"true", "false", "True", "TRUE", " true", "1", NoString}
AnnotationInputs ==
    {None, EmptyDict,
     [k \in {CUSTOM_PAGE_ANNOTATION} |-> "blue"],
     [k \in {"maintenance-operator.kahf.io/enabled"} |-> "true"],
     [k \in {BACKUP_ANNOTATION} |-> "true"]}
    \cup {[k \in {MAINTENANCE_ANNOTATION} |-> v] : v \in FlagValues}
    \cup {[k \in {MAINTENANCE_ANNOTATION, CUSTOM_PAGE_ANNOTATION} |-> v] : v \in {"true", "false"}}

\* every Route carries annotations drawn from AnnotationInputs
InitFlag ==
    /\ ingress \in [Routes -> {[annotations |-> a, spec |-> [rules |-> << >>, defaultBackend |-> None]] :
                                  a \in AnnotationInputs}]
    /\ prior = [rt \in Routes |-> None]
    /\ pending = [rt \in Routes |-> FALSE]
    /\ spec0 = [rt \in Routes |-> ingress[rt].spec]
    /\ trail = [rt \in Routes |-> << >>]
    /\ InitCluster

\* is_under_maintenance is applied to the annotations of the Route rt
Classify(w, rt) ==
    /\ pc[w] = "idle"
    /\ loc' = [loc EXCEPT ![w] =
                 [IdleLoc EXCEPT !.task = "classify", !.rt = rt,
                                 !.annotations = ingress[rt].annotations,
                                 !.result = is_under_maintenance(ingress[rt].annotations)]]
    /\ pc' = [pc EXCEPT ![w] = "done"]
    /\ UNCHANGED <<proxyVars, custom, ingress, prior, pending, configmaps, pods, services, inputs, spec0, trail, lastCall>>

NextFlag ==
    \/ \E w \in Workers, rt \in Routes : Classify(w, rt)
    \/ \E w \in Workers : Return(w)

SpecFlag == InitFlag /\ [][NextFlag]_vars

\* custom pages that name the default content, and one that does not
DefaultPages == {NoString, "default", "DEFAULT", "Default", "blue"}

\* direct calls of acquire and release, one at a time, with the custom pages
\* of DefaultPages
NextPages ==
    \/ \E w \in Workers, ns \in ApiNamespaces, n \in PartialNames, p \in DefaultPages :
          CallAcquire(w, ns, n, p, TRUE)
    \/ \E w \in Workers, ns \in ApiNamespaces, n \in PartialNames, p \in DefaultPages :
          CallRelease(w, ns, n, ResourceName(p), TRUE)
    \/ \E w \in Workers : AcquireStep(w) \/ ReleaseStep(w) \/ Return(w)

SpecPages == InitApi /\ [][NextPages]_vars

\* values of the custom-page annotation with and without surrounding blanks
PaddedPages == {"blue", " blue "}

\* handlers run one at a time, and the user may pad the custom page
NextPadded ==
    \/ \E rt \in Routes, enabled \in EnabledValues, custom_page \in PaddedPages \cup {NoString} :
          UserEdit(rt, enabled, custom_page, MaxFaultEdits)
    \/ \E w \in Workers, rt \in Routes : Deliver(w, rt, TRUE)
    \/ \E w \in Workers : HandlerStep(w)

SpecPadded == InitConc /\ [][NextPadded]_vars

\* direct calls of the operations of the backup store, one at a time
NextBackup ==
    \/ \E w \in Workers, ns \in ApiNamespaces, n \in ApiNames, d \in BackupDatas :
          CallSaveBackup(w, ns, n, d)
    \/ \E w \in Workers, ns \in ApiNamespaces, n \in ApiNames : CallLoadBackup(w, ns, n)
    \/ \E w \in Workers, ns \in ApiNamespaces, n \in ApiNames : CallDropBackup(w, ns, n)
    \/ \E w \in Workers : Return(w)

SpecBackup == InitApi /\ [][NextBackup]_vars

-----------------------------------------------------------------------------
(* The maintenance page server (app/maintenance_server.py).  An Accept     *)
(* header is modelled by the sequence of its comma-separated media ranges  *)
(* and '' by << >>: a media type is a substring of the header exactly when *)
(* it is one of the media ranges.                                          *)

HTTP_STATUS_CODE == 503
DEFAULT_HTML == NoString
DEFAULT_JSON == "{status: maintenance}"
DEFAULT_XML == "<response>maintenance</response>"

\* the Accept headers of the requests that carry one
AcceptHeaders ==
    {<< >>, <<"text/html">>, <<"application/json">>, <<"application/xml">>,
     <<"text/xml">>, <<"*/*">>, <<"application/pdf">>, <<"Application/JSON">>,
     <<"application/json", "text/html">>, <<"text/html", "application/json">>,
     <<"application/xml", "application/json">>, <<"application/json", "*/*">>,
     <<"application/pdf", "*/*">>, <<"text/xml", "TEXT/HTML">>}

\* the custom pages requests name: none, one that exists, one that does not
RequestPages == {NoString, "blue", "gone"}

\* get_custom_page: the pages of the model hold page.html only
get_custom_page(page_name, content_type) ==
    LET cm_name == "maintenance-page-" \o page_name
    IN IF cm_name \in DOMAIN OperatorPages /\ content_type \notin {"json", "xml"}
       THEN OperatorPages[cm_name] ELSE NoString

\* mutant: the first media range of the header decides
get_best_content_type_First(accept_header) ==
    IF accept_header = << >> THEN "html"
    ELSE LET first == Lower(accept_header[1])
         IN CASE first = "application/json" -> "json"
              [] first \in {"application/xml", "text/xml"} -> "xml"
              [] OTHER -> "html"

get_best_content_type(accept_header) ==
    IF accept_header = << >> THEN "html"
    ELSE LET accept_lower == [i \in 1..Len(accept_header) |-> Lower(accept_header[i])]
         IN IF Contains(accept_lower, "text/html") THEN "html"
            ELSE IF Contains(accept_lower, "application/json") THEN "json"
            ELSE IF Contains(accept_lower, "application/xml") \/ Contains(accept_lower, "text/xml")
            THEN "xml"
            ELSE IF Contains(accept_lower, "*/*") THEN "html"
            ELSE "html"

\* the Response of maintenance_page to a request with the headers and the
\* custom page given
Response(headers, custom_page) ==
    LET accept_header == Get(headers, "Accept", <<"text/html">>)
        content_type == get_best_content_type(accept_header)
        content == IF custom_page # NoString THEN get_custom_page(custom_page, content_type)
                   ELSE NoString
        mime_type == CASE content_type = "json" -> "application/json"
                       [] content_type = "xml" -> "application/xml"
                       [] OTHER -> "text/html"
    IN [status |-> HTTP_STATUS_CODE,
        mimetype |-> mime_type,
        content |-> IF content # NoString THEN content
                    ELSE CASE content_type = "json" -> DEFAULT_JSON
                           [] content_type = "xml" -> DEFAULT_XML
                           [] OTHER -> DEFAULT_HTML]

\* the headers of the requests
RequestHeaders == {EmptyDict} \cup {[k \in {"Accept"} |-> a] : a \in AcceptHeaders}

\* every worker holds a request, its headers drawn from RequestHeaders and
\* its custom page from RequestPages
InitServer ==
    /\ ingress = [rt \in Routes |-> [annotations |-> EmptyDict,
                                     spec |-> [rules |-> << >>, defaultBackend |-> None]]]
    /\ prior = [rt \in Routes |-> None]
    /\ pending = [rt \in Routes |-> FALSE]
    /\ spec0 = [rt \in Routes |-> ingress[rt].spec]
    /\ trail = [rt \in Routes |-> << >>]
    /\ configmaps = EmptyDict
    /\ pods = {}
    /\ services = {}
    /\ inputs = 0
    /\ lastCall = NoCall
    /\ InitProxy
    /\ custom = NoCustom
    /\ pc = [w \in Workers |-> "serve"]
    /\ loc \in [Workers -> {[IdleLoc EXCEPT !.task = "serve", !.headers = h, !.custom_page = p] :
                              h \in RequestHeaders, p \in RequestPages}]

\* maintenance_page answers the request of worker w
MaintenancePage(w) ==
    /\ pc[w] = "serve"
    /\ loc' = [loc EXCEPT ![w] =
                 [loc[w] EXCEPT !.result = Response(loc[w].headers, loc[w].custom_page)]]
    /\ pc' = [pc EXCEPT ![w] = "done"]
    /\ UNCHANGED <<proxyVars, custom, ingress, prior, pending, configmaps, pods, services, inputs, spec0, trail, lastCall>>

NextServer ==
    \/ \E w \in Workers : MaintenancePage(w)
    \/ \E w \in Workers : Return(w)

SpecServer == InitServer /\ [][NextServer]_vars

-----------------------------------------------------------------------------
(* The Endpoint Reconciliation Worker.  Its code is not among the sources  *)
(* of app/: app/handlers/traefik.py imports create_maintenance_service,     *)
(* which provisions the proxy service and its endpoints, from utils, where  *)
(* it is not defined.  The worker is modelled from the specification: on a  *)
(* fixed period and once at startup it lists the addresses of the worker    *)
(* processes, skips the cycle when there is none, lists the                 *)
(* ProxyRoutingTables of all namespaces and patches each with the addresses *)
(* listed; an error ends the cycle and the next tick starts a new one.      *)

\* the namespaces that can hold a ProxyRoutingTable
TableNamespaces == {"ns1", "ns2"}

\* the address sets of the pool of worker processes
LiveSets == {{}, {"10.0.0.1"}, {"10.0.0.1", "10.0.0.2"}}

\* the tables the listing of a cycle finds, each with the uid of its object
Listed == {<<ns, tables[ns].uid>> : ns \in DOMAIN tables}

\* the cycle ends with an error that is swallowed
CycleFailed == [recon EXCEPT !.pc = "sleep", !.todo = {}, !.outcome = "failed",
                             !.everFailed = TRUE]

\* mutant: a cycle that lists no address goes on as any other
ListAddresses_NoSkip ==
    /\ recon.pc = "sleep"
    /\ recon' = [recon EXCEPT !.pc = "list", !.observed = live, !.todo = {}, !.listed = {},
                              !.outcome = "running"]
    /\ UNCHANGED <<tables, live, inputs, custom, routeVars>>

\* the tick of the timer, and the start of the process: list the addresses of
\* the worker processes and skip the cycle when there is none
ListAddresses ==
    /\ recon.pc = "sleep"
    /\ recon' = IF live = {}
                THEN [recon EXCEPT !.observed = {}, !.todo = {}, !.listed = {},
                                   !.outcome = "skipped"]
                ELSE [recon EXCEPT !.pc = "list", !.observed = live, !.todo = {},
                                   !.listed = {}, !.outcome = "running"]
    /\ UNCHANGED <<tables, live, inputs, custom, routeVars>>

\* list the ProxyRoutingTables of all namespaces
ListTables ==
    /\ recon.pc = "list"
    /\ recon' = [recon EXCEPT !.pc = "patch", !.todo = DOMAIN tables, !.listed = Listed]
    /\ UNCHANGED <<tables, live, inputs, custom, routeVars>>

\* patch the table of one of the namespaces listed with the addresses listed;
\* the 404 of a table that is gone is an error of the cycle
PatchTable(ns) ==
    /\ recon.pc = "patch"
    /\ ns \in recon.todo
    /\ IF ns \in DOMAIN tables
       THEN /\ tables' = [tables EXCEPT ![ns].targetAddresses = recon.observed]
            /\ recon' = [recon EXCEPT !.todo = @ \ {ns},
                                      !.repaired = @ \/ tables[ns].targetAddresses # recon.observed]
       ELSE /\ tables' = tables
            /\ recon' = CycleFailed
    /\ UNCHANGED <<live, inputs, custom, routeVars>>

\* every table listed has been patched: sleep until the next tick
EndCycle ==
    /\ recon.pc = "patch"
    /\ recon.todo = {}
    /\ recon' = [recon EXCEPT !.pc = "sleep", !.outcome = "completed"]
    /\ UNCHANGED <<tables, live, inputs, custom, routeVars>>

\* mutant: the error of a cycle ends the background loop
FailCycle_Terminates ==
    /\ inputs < MaxEvents
    /\ inputs' = inputs + 1
    /\ recon.pc \in {"list", "patch"}
    /\ recon' = [CycleFailed EXCEPT !.pc = "stopped"]
    /\ UNCHANGED <<tables, live, custom, routeVars>>

\* a call of the running cycle answers with an error
FailCycle ==
    /\ inputs < MaxEvents
    /\ inputs' = inputs + 1
    /\ recon.pc \in {"list", "patch"}
    /\ recon' = CycleFailed
    /\ UNCHANGED <<tables, live, custom, routeVars>>

Reconcile == ListAddresses \/ ListTables \/ (\E ns \in TableNamespaces : PatchTable(ns)) \/ EndCycle

\* worker processes start, stop or are rescheduled
PoolChange(addresses) ==
    /\ inputs < MaxEvents
    /\ inputs' = inputs + 1
    /\ addresses # live
    /\ live' = addresses
    /\ UNCHANGED <<tables, recon, custom, routeVars>>

\* route-level acquisition provisions the table of a namespace, with the
\* addresses it knows
Provision(ns, addresses) ==
    /\ inputs < MaxEvents
    /\ inputs' = inputs + 1
    /\ ns \notin DOMAIN tables
    /\ tables' = Put(tables, ns, [targetAddresses |-> addresses, uid |-> inputs])
    /\ UNCHANGED <<live, recon, custom, routeVars>>

\* route-level release removes the table of a namespace
Unprovision(ns) ==
    /\ inputs < MaxEvents
    /\ inputs' = inputs + 1
    /\ ns \in DOMAIN tables
    /\ tables' = Pop(tables, ns)
    /\ UNCHANGED <<live, recon, custom, routeVars>>

\* the operator has started: no table, some pool of worker processes
InitRecon ==
    /\ ingress = [rt \in Routes |-> [annotations |-> EmptyDict,
                                     spec |-> [rules |-> << >>, defaultBackend |-> None]]]
    /\ prior = [rt \in Routes |-> None]
    /\ pending = [rt \in Routes |-> FALSE]
    /\ spec0 = [rt \in Routes |-> ingress[rt].spec]
    /\ trail = [rt \in Routes |-> << >>]
    /\ configmaps = EmptyDict
    /\ pods = {}
    /\ services = {}
    /\ pc = [w \in Workers |-> "idle"]
    /\ loc = [w \in Workers |-> IdleLoc]
    /\ inputs = 0
    /\ lastCall = NoCall
    /\ tables = EmptyDict
    /\ live \in LiveSets
    /\ recon = IdleRecon
    /\ custom = NoCustom

NextRecon ==
    \/ Reconcile
    \/ FailCycle
    \/ \E addresses \in LiveSets : PoolChange(addresses)
    \/ \E ns \in TableNamespaces, addresses \in LiveSets : Provision(ns, addresses)
    \/ \E ns \in TableNamespaces : Unprovision(ns)

\* the timer keeps ticking and a cycle that has started goes on
SpecRecon == InitRecon /\ [][NextRecon]_vars /\ WF_vars(Reconcile)

-----------------------------------------------------------------------------
(* Transient failures of the cluster API (any status but 404 and 409): at  *)
(* most one call of a handling fails.  What follows the failure is what    *)
(* the except clause around the call does.                                 *)

\* the calls that are in no try block or whose except clause re-raises
RaisingCalls ==
    {"create_backup", "get_backup", "acq_read", "acq_patch", "acq_create", "acq_pod",
     "acq_svc", "patch_enable", "patch_switch", "patch_disable"}

\* the locals after the call the worker was about to make has failed
Failed(w) == [Call(loc[w], pc[w]) EXCEPT !.errors = Append(@, pc[w])]

\* the error propagates out of handle_ingress
FailRaised(w) ==
    /\ pc[w] \in RaisingCalls
    /\ loc[w].errors = << >>
    /\ loc' = [loc EXCEPT ![w] = [Failed(w) EXCEPT !.failed = TRUE]]
    /\ pc' = [pc EXCEPT ![w] = "done"]
    /\ UNCHANGED <<proxyVars, custom, ingress, prior, pending, configmaps, pods, services, inputs, spec0, trail, lastCall>>

\* delete_backup_configmap logs the error and returns; the handler goes on
FailDeleteBackup(w) ==
    LET l == Failed(w)
    IN /\ pc[w] = "delete_backup"
       /\ loc[w].errors = << >>
       /\ IF l.service_name # NoString
          THEN /\ pc' = [pc EXCEPT ![w] = "rel_read"]
               /\ loc' = [loc EXCEPT ![w] = StartRelease(l, l.service_name, "done")]
          ELSE /\ pc' = [pc EXCEPT ![w] = "done"]
               /\ loc' = [loc EXCEPT ![w] = l]
       /\ UNCHANGED <<proxyVars, custom, ingress, prior, pending, configmaps, pods, services, inputs, spec0, trail, lastCall>>

\* the read or the patch of delete_maintenance_resources fails: the outer
\* except clause logs the error and the function returns
FailReleaseRead(w) ==
    /\ pc[w] \in {"rel_read", "rel_patch"}
    /\ loc[w].errors = << >>
    /\ loc' = [loc EXCEPT ![w] = Failed(w)]
    /\ pc' = [pc EXCEPT ![w] = loc[w].rel_ret]
    /\ UNCHANGED <<proxyVars, custom, ingress, prior, pending, configmaps, pods, services, inputs, spec0, trail, lastCall>>

\* a delete of delete_maintenance_resources fails: the error is logged and
\* the next delete is made
FailReleaseDelete(w) ==
    /\ pc[w] \in {"rel_delete_pod", "rel_delete_svc", "rel_delete_cm"}
    /\ loc[w].errors = << >>
    /\ loc' = [loc EXCEPT ![w] = Failed(w)]
    /\ pc' = [pc EXCEPT ![w] =
                CASE pc[w] = "rel_delete_pod" -> "rel_delete_svc"
                  [] pc[w] = "rel_delete_svc" -> "rel_delete_cm"
                  [] OTHER -> loc[w].rel_ret]
    /\ UNCHANGED <<proxyVars, custom, ingress, prior, pending, configmaps, pods, services, inputs, spec0, trail, lastCall>>

Fail(w) == FailRaised(w) \/ FailDeleteBackup(w) \/ FailReleaseRead(w) \/ FailReleaseDelete(w)

\* handlers run one at a time, and API calls can fail
NextFault ==
    \/ User(MaxFaultEdits)
    \/ \E w \in Workers, rt \in Routes : Deliver(w, rt, TRUE)
    \/ \E w \in Workers : HandlerStep(w)
    \/ \E w \in Workers : Fail(w)

SpecFault == InitConc /\ [][NextFault]_vars

-----------------------------------------------------------------------------
(* app/maintenance_operator.py: the operator that is driven by a label and *)
(* points the Routes of a namespace at the one proxy Service of the        *)
(* namespace.  Its backup functions are those of app/utils.py.             *)

MAINTENANCE_LABEL == "under-maintenance"
MAINTENANCE_LABEL_VALUE == "true"
MAINTENANCE_SERVICE_NAME == "maintenance-operator"
\* BACKUP_ANNOTATION and MAINTENANCE_SERVICE_PORT of maintenance_operator.py
PROXY_BACKUP_ANNOTATION == "maintenance-operator.kahf.io/original-service"
PROXY_SERVICE_PORT == 8080

\* values the user gives the maintenance label (NoString: label absent)
LabelValues == {NoString, "true", "false"}

\* is_under_maintenance(labels)
has_maintenance_label(labels) ==
    IF labels = None \/ labels = EmptyDict THEN FALSE
    ELSE Get(labels, MAINTENANCE_LABEL, NoString) = MAINTENANCE_LABEL_VALUE

\* the name of the proxy Service, the same for every namespace
ProxyServiceName == MAINTENANCE_SERVICE_NAME \o "-proxy"

\* the Services after create_maintenance_service(namespace); 409 is ignored
create_maintenance_service(svcs, namespace) ==
    svcs \cup {<<namespace, ProxyServiceName>>}

\* the Services after delete_maintenance_service(namespace); 404 is ignored
delete_maintenance_service(svcs, namespace) ==
    svcs \ {<<namespace, ProxyServiceName>>}

\* the loop over the rules of maintenance_operator.handle_ingress
ProxyRewriteRule(rule, proxy_service_name) ==
    LET http == Get(rule, "http", EmptyDict)
        paths == Get(http, "paths", << >>)
        new_paths == [i \in 1..Len(paths) |->
                        Put(paths[i], "backend", Backend(proxy_service_name, PROXY_SERVICE_PORT))]
    IN Put(rule, "http", [paths |-> new_paths])

\* the patch body of the enable branch
ProxyEnablePatch(annotations, spec, proxy_service_name) ==
    LET new_backend == Backend(proxy_service_name, PROXY_SERVICE_PORT)
        new_rules == [i \in 1..Len(spec.rules) |-> ProxyRewriteRule(spec.rules[i], proxy_service_name)]
    IN [annotations |-> Put(annotations, PROXY_BACKUP_ANNOTATION,
                            Get(annotations, PROXY_BACKUP_ANNOTATION, "true")),
        rules |-> IF new_rules # << >> THEN new_rules ELSE spec.rules,
        defaultBackend |-> IF new_rules = << >> THEN new_backend ELSE spec.defaultBackend]

\* the patch body of the disable branch
ProxyDisablePatch(annotations, backup_data) ==
    [annotations |-> Pop(annotations, PROXY_BACKUP_ANNOTATION),
     rules |-> Get(backup_data, "rules", << >>),
     defaultBackend |-> Get(backup_data, "defaultBackend", None)]

\* the cluster API applies a patch of a labelled Ingress
PatchLabelled(obj, patch) ==
    [labels |-> obj.labels,
     annotations |-> PatchIngress(obj, patch).annotations,
     spec |-> PatchIngress(obj, patch).spec]

\* The user sets or removes the maintenance label of the Route rt.
LabelEdit(rt, value) ==
    LET labels == IF value = NoString THEN Pop(ingress[rt].labels, MAINTENANCE_LABEL)
                  ELSE Put(ingress[rt].labels, MAINTENANCE_LABEL, value)
    IN /\ inputs < MaxEdits
       /\ ~pending[rt]
       /\ labels # ingress[rt].labels
       /\ Revise(rt, [ingress[rt] EXCEPT !.labels = labels])
       /\ inputs' = inputs + 1
       /\ UNCHANGED <<proxyVars, custom, configmaps, pods, services, pc, loc, spec0, trail, lastCall>>

\* maintenance_operator.handle_ingress handles the current revision of rt,
\* from its first API call to its last
LabelHandleIngress(rt) ==
    LET namespace == rt[1]
        name == rt[2]
        labels == ingress[rt].labels
        annotations == ingress[rt].annotations
        spec == ingress[rt].spec
        under_maintenance == has_maintenance_label(labels)
        backup == annotations # EmptyDict /\ PROXY_BACKUP_ANNOTATION \in DOMAIN annotations
        backup_data == LoadBackup(configmaps, namespace, name)
    IN /\ AllIdle
       /\ IF under_maintenance /\ ~backup
          THEN /\ configmaps' = SaveBackup(configmaps, namespace, name,
                                           [rules |-> spec.rules, defaultBackend |-> spec.defaultBackend])
               /\ services' = create_maintenance_service(services, namespace)
               /\ Revise(rt, PatchLabelled(ingress[rt],
                                           ProxyEnablePatch(annotations, spec, ProxyServiceName)))
          ELSE IF ~under_maintenance /\ backup /\ backup_data # None /\ backup_data # EmptyDict
          THEN /\ Revise(rt, PatchLabelled(ingress[rt], ProxyDisablePatch(annotations, backup_data)))
               /\ configmaps' = DropBackup(configmaps, namespace, name)
               /\ services' = delete_maintenance_service(services, namespace)
          ELSE /\ pending' = [pending EXCEPT ![rt] = FALSE]
               /\ UNCHANGED <<ingress, prior, configmaps, services>>
       /\ UNCHANGED <<proxyVars, custom, pods, pc, loc, inputs, spec0, trail, lastCall>>

\* every Route is NORMAL, without labels and annotations
InitLabel ==
    /\ ingress \in [Routes -> {[labels |-> EmptyDict, annotations |-> EmptyDict, spec |-> s] :
                                 s \in IngressSpecs}]
    /\ prior = [rt \in Routes |-> None]
    /\ pending = [rt \in Routes |-> FALSE]
    /\ spec0 = [rt \in Routes |-> ingress[rt].spec]
    /\ trail = [rt \in Routes |-> << >>]
    /\ InitCluster

NextLabel ==
    \/ \E rt \in Routes, value \in LabelValues : LabelEdit(rt, value)
    \/ \E rt \in Routes : LabelHandleIngress(rt)

SpecLabel == InitLabel /\ [][NextLabel]_vars

-----------------------------------------------------------------------------
(* app/handlers/traefik.py: handle_ingressroute.  The proxy Service it     *)
(* asks for is the one of maintenance_operator.py, the only definition of  *)
(* create_maintenance_service among the sources.                           *)

\* the watched IngressRoute: it has the namespace and the name of an Ingress
IngressRoutes == {<<"ns1", "r1", "IngressRoute">>}

\* the specs an IngressRoute starts with: a route without middlewares and a
\* route with a middleware of the user
IngressRouteSpecs ==
    { [routes |-> << [match |-> "Host(a.example)",
                      services |-> << [name |-> "svc-a", port |-> 8080] >>] >>],
      [routes |-> << [match |-> "Host(b.example)",
                      services |-> << [name |-> "svc-b", port |-> 8080] >>,
                      middlewares |-> << [name |-> "auth"] >>] >>] }

MiddlewareName(name) == name \o "-maintenance-page"

\* the Middleware that injects the header X-Maintenance-Page
Middleware(custom_page) ==
    [spec |-> [headers |-> [customRequestHeaders |->
                               [k \in {"X-Maintenance-Page"} |-> custom_page]]]]

\* the Middlewares after the delete of the Middleware of the Route (404 is
\* ignored) and the create of the new one, if the custom page asks for one
ReplaceMiddleware(mws, namespace, name, custom_page) ==
    LET key == <<namespace, MiddlewareName(name)>>
    IN IF custom_page # NoString /\ Lower(custom_page) # "default"
       THEN Put(Pop(mws, key), key, Middleware(custom_page))
       ELSE Pop(mws, key)

\* the middlewares of a rewritten route: the one of the Route first, if any
RouteMiddlewares(route, name, custom_page) ==
    LET existing_middlewares == Get(route, "middlewares", << >>)
        filtered_middlewares == SelectSeq(existing_middlewares,
                                          LAMBDA mw : mw.name # MiddlewareName(name))
    IN IF custom_page # NoString /\ Lower(custom_page) # "default"
       THEN << [name |-> MiddlewareName(name)] >> \o filtered_middlewares
       ELSE filtered_middlewares

\* the loop over the routes of the enable branch
EnableRoutes(routes, name, proxy_service_name, custom_page) ==
    [i \in 1..Len(routes) |->
        Put(Put(routes[i], "services",
                << [name |-> proxy_service_name, port |-> MAINTENANCE_SERVICE_PORT] >>),
            "middlewares", RouteMiddlewares(routes[i], name, custom_page))]

\* the loop over the routes of the content-switch branch
SwitchRoutes(routes, name, custom_page) ==
    [i \in 1..Len(routes) |->
        Put(routes[i], "middlewares", RouteMiddlewares(routes[i], name, custom_page))]

\* a new revision of the IngressRoute rt
ReviseRoute(rt, obj, mws) ==
    /\ custom' = [ingressroutes |-> [custom.ingressroutes EXCEPT ![rt] = obj],
                  middlewares |-> mws]
    /\ prior' = [prior EXCEPT ![rt] =
                   [metadata |-> [annotations |-> custom.ingressroutes[rt].annotations]]]
    /\ pending' = [pending EXCEPT ![rt] = TRUE]

\* The user sets the maintenance annotation of the IngressRoute rt and sets or
\* removes its custom page; only a Route under maintenance is disabled.
RouteEdit(rt, enabled, custom_page) ==
    LET annotations == custom.ingressroutes[rt].annotations
        a1 == Put(annotations, MAINTENANCE_ANNOTATION, enabled)
        a2 == IF custom_page = NoString THEN Pop(a1, CUSTOM_PAGE_ANNOTATION)
              ELSE Put(a1, CUSTOM_PAGE_ANNOTATION, custom_page)
    IN /\ inputs < MaxEdits
       /\ ~pending[rt]
       /\ AllIdle
       /\ a2 # annotations
       /\ enabled = "true" \/ is_under_maintenance(annotations)
       /\ ReviseRoute(rt, [custom.ingressroutes[rt] EXCEPT !.annotations = a2], custom.middlewares)
       /\ inputs' = inputs + 1
       /\ UNCHANGED <<proxyVars, ingress, configmaps, pods, services, pc, loc, spec0, trail, lastCall>>

\* handle_ingressroute handles the current revision of rt, from its first API
\* call to its last
HandleIngressRoute(rt) ==
    LET namespace == rt[1]
        name == rt[2]
        annotations == custom.ingressroutes[rt].annotations
        spec == custom.ingressroutes[rt].spec
        old == prior[rt]
        under_maintenance == is_under_maintenance(annotations)
        backup == BACKUP_ANNOTATION \in DOMAIN annotations
        custom_page == Strip(Get(annotations, CUSTOM_PAGE_ANNOTATION, NoString))
        backup_data == LoadBackup(configmaps, namespace, name)
    IN /\ AllIdle
       /\ IF under_maintenance /\ ~backup
          THEN /\ configmaps' = SaveBackup(configmaps, namespace, name, [routes |-> spec.routes])
               /\ services' = create_maintenance_service(services, namespace)
               /\ ReviseRoute(rt,
                      [annotations |-> Put(annotations, BACKUP_ANNOTATION, "true"),
                       spec |-> [routes |-> EnableRoutes(spec.routes, name, ProxyServiceName, custom_page)]],
                      ReplaceMiddleware(custom.middlewares, namespace, name, custom_page))
               /\ trail' = [trail EXCEPT ![rt] = <<"enable">>]
          ELSE IF under_maintenance /\ backup /\ CustomPageChanged(annotations, old)
          THEN /\ ReviseRoute(rt,
                      [annotations |-> annotations,
                       spec |-> [routes |-> SwitchRoutes(spec.routes, name, custom_page)]],
                      ReplaceMiddleware(custom.middlewares, namespace, name, custom_page))
               /\ trail' = [trail EXCEPT ![rt] = Append(@, "switch")]
               /\ UNCHANGED <<configmaps, services>>
          ELSE IF ~under_maintenance /\ backup /\ backup_data # None /\ backup_data # EmptyDict
          THEN /\ ReviseRoute(rt,
                      [annotations |-> Pop(annotations, BACKUP_ANNOTATION),
                       spec |-> [routes |-> Get(backup_data, "routes", << >>)]],
                      Pop(custom.middlewares, <<namespace, MiddlewareName(name)>>))
               /\ configmaps' = DropBackup(configmaps, namespace, name)
               /\ services' = delete_maintenance_service(services, namespace)
               /\ trail' = [trail EXCEPT ![rt] = << >>]
          ELSE /\ pending' = [pending EXCEPT ![rt] = FALSE]
               /\ UNCHANGED <<custom, prior, configmaps, services, trail>>
       /\ UNCHANGED <<proxyVars, ingress, pods, pc, loc, inputs, spec0, lastCall>>

\* the Ingress of the same namespace and name
IngressOf(rt) == <<rt[1], rt[2]>>

\* an Ingress and an IngressRoute with the same namespace and name, both
\* NORMAL; the Ingress has one rule
InitKinds ==
    /\ ingress \in [Routes -> {[annotations |-> EmptyDict, spec |-> s] :
                                 s \in {t \in IngressSpecs : Len(t.rules) = 1}}]
    /\ custom \in {[ingressroutes |-> [rt \in IngressRoutes |-> [annotations |-> EmptyDict, spec |-> s]],
                    middlewares |-> EmptyDict] : s \in IngressRouteSpecs}
    /\ prior = [rt \in Routes \cup IngressRoutes |-> None]
    /\ pending = [rt \in Routes \cup IngressRoutes |-> FALSE]
    /\ spec0 = [rt \in Routes \cup IngressRoutes |->
                  IF rt \in Routes THEN ingress[rt].spec ELSE custom.ingressroutes[rt].spec]
    /\ trail = [rt \in Routes \cup IngressRoutes |-> << >>]
    /\ InitProxy
    /\ configmaps = EmptyDict
    /\ pods = {}
    /\ services = {}
    /\ pc = [w \in Workers |-> "idle"]
    /\ loc = [w \in Workers |-> IdleLoc]
    /\ inputs = 0
    /\ lastCall = NoCall

\* the user edits the Ingresses and the IngressRoute, one of which has the name
\* of an Ingress; the handlers run one at a time
NextKinds ==
    \/ \E rt \in Routes, enabled \in EnabledValues, custom_page \in CustomPages \cup {NoString} :
          /\ enabled = "true" \/ is_under_maintenance(ingress[rt].annotations)
          /\ UserEdit(rt, enabled, custom_page, MaxEdits)
    \/ \E rt \in IngressRoutes, enabled \in EnabledValues, custom_page \in CustomPages \cup {NoString} :
          RouteEdit(rt, enabled, custom_page)
    \/ \E w \in Workers, rt \in Routes : Deliver(w, rt, TRUE)
    \/ \E w \in Workers : HandlerStep(w)
    \/ \E rt \in IngressRoutes : HandleIngressRoute(rt)

SpecKinds == InitKinds /\ [][NextKinds]_vars

-----------------------------------------------------------------------------
(* Deliveries of one event to two handlers at a time.                      *)

\* The watch layer delivers the enabling event that worker v has begun to
\* handle to worker w as well: handle_ingress runs twice on the same revision
\* of rt, and the calls of the two interleave.
Redeliver(w, rt) ==
    \E v \in Workers :
        /\ pc[w] = "idle"
        /\ pc[v] = "create_backup"
        /\ inputs < MaxDupEdits
        /\ inputs' = inputs + 1
        /\ loc[v].rt = rt
        /\ loc[v].task = "enable"
        /\ loc' = [loc EXCEPT ![w] =
                     [IdleLoc EXCEPT !.task = "enable", !.rt = rt,
                                     !.annotations = loc[v].annotations,
                                     !.spec = loc[v].spec, !.old = loc[v].old,
                                     !.pre = Cluster]]
        /\ pc' = [pc EXCEPT ![w] = "create_backup"]
        /\ UNCHANGED <<proxyVars, custom, ingress, prior, pending, configmaps, pods, services,
                       spec0, trail, lastCall>>

\* events are handled one at a time, but one event by two handlers whose calls
\* interleave
NextDup ==
    \/ User(MaxDupEdits)
    \/ \E w \in Workers, rt \in Routes : Deliver(w, rt, TRUE)
    \/ \E w \in Workers, rt \in Routes : Redeliver(w, rt)
    \/ \E w \in Workers : HandlerStep(w)

SpecDup == InitConc /\ [][NextDup]_vars

-----------------------------------------------------------------------------
(* Custom pages of different names and the same content.                   *)

\* two names without a ConfigMap in the operator namespace, which get the
\* fallback page, and 'default', which gets the page of an absent annotation
SamePages == {"gone", "lost", "default"}

\* handlers run one at a time, and the user picks among the pages of SamePages
NextSame ==
    \/ \E rt \in Routes, enabled \in EnabledValues, custom_page \in SamePages \cup {NoString} :
          UserEdit(rt, enabled, custom_page, MaxSameEdits)
    \/ \E w \in Workers, rt \in Routes : Deliver(w, rt, TRUE)
    \/ \E w \in Workers : HandlerStep(w)

SpecSame == InitConc /\ [][NextSame]_vars

-----------------------------------------------------------------------------
(* Two namespaces.                                                         *)

\* the namespaces of the direct calls: Routes of the same name and sets of the
\* same content hash exist in both
TwoNamespaces == {"ns1", "ns2"}

\* the BackupRecord the callers save
OneBackup == [rules |-> << >>, defaultBackend |-> Backend("svc-b", 8080)]

\* direct calls of acquire and release and saves of a BackupRecord, one at a
\* time, in either namespace
NextSpaces ==
    \/ \E w \in Workers, ns \in TwoNamespaces, n \in PartialNames, p \in CustomPages :
          CallAcquire(w, ns, n, p, TRUE)
    \/ \E w \in Workers, ns \in TwoNamespaces, n \in PartialNames, p \in CustomPages :
          CallRelease(w, ns, n, ResourceName(p), TRUE)
    \/ \E w \in Workers, ns \in TwoNamespaces : CallSaveBackup(w, ns, "r1", OneBackup)
    \/ \E w \in Workers : AcquireStep(w) \/ ReleaseStep(w) \/ Return(w)

SpecSpaces == InitApi /\ [][NextSpaces]_vars

-----------------------------------------------------------------------------
(* Properties.                                                             *)

\* a handler of the given branch has just completed on worker w
Completed(w, task) == pc[w] = "done" /\ loc[w].task = task /\ ~loc[w].failed

PageKey(namespace, resource_name) == <<namespace, resource_name>>

\* used-by of the set <<namespace, resource_name>> in the ConfigMaps cms, << >> without one
UsedByIn(cms, key) == IF key \in DOMAIN cms THEN UsedByOf(cms[key]) ELSE << >>

\* the Route name is in no used-by of its namespace
Unreferenced(rt) ==
    \A k \in DOMAIN configmaps : k[1] = rt[1] => ~Contains(UsedByOf(configmaps[k]), rt[2])

\* C1: an enable followed by a disable, with no content switch between them,
\* leaves the Route with its original rules, without BackupRecord, without the
\* backup and service-name annotations, and in no used-by.
C1_RoundTrip ==
    \A w \in Workers :
        (Completed(w, "disable") /\ trail[loc[w].rt] = <<"enable">>) =>
            LET rt == loc[w].rt
            IN /\ ingress[rt].spec.rules = spec0[rt].rules
               /\ <<rt[1], BackupName(rt[2])>> \notin DOMAIN configmaps
               /\ BACKUP_ANNOTATION \notin DOMAIN ingress[rt].annotations
               /\ SERVICE_NAME_ANNOTATION \notin DOMAIN ingress[rt].annotations
               /\ Unreferenced(rt)

C1_Witness ==
    \E w \in Workers :
        /\ Completed(w, "disable") /\ trail[loc[w].rt] = <<"enable">>
        /\ spec0[loc[w].rt].rules # << >>
        /\ loc[w].pre.ingress[loc[w].rt].spec.rules # spec0[loc[w].rt].rules
        /\ loc[w].cm # None


IsPageConfigMap(cm) == "index.html" \in DOMAIN cm.data

\* the content holders of the namespace that hold the same content as cm
SameContent(namespace, cm) ==
    {k \in DOMAIN configmaps :
        /\ k[1] = namespace
        /\ IsPageConfigMap(configmaps[k])
        /\ configmaps[k].data["index.html"] = cm.data["index.html"]}

\* the Route r2 is ACTIVE, enabled with the custom page it carries, settled
EnabledWith(r2, custom_page) ==
    /\ trail[r2] = <<"enable">>
    /\ ~pending[r2] /\ ~Busy(r2)
    /\ is_under_maintenance(ingress[r2].annotations)
    /\ has_backup(ingress[r2].annotations)
    /\ Get(ingress[r2].annotations, CUSTOM_PAGE_ANNOTATION, NoString) = custom_page

\* C2: when a second Route of the namespace enables maintenance with the
\* custom page of a Route that is ACTIVE, one content holder, one Pod and one
\* Service hold that content, used-by names both Routes, both Routes carry
\* the same handle, and the second handler created no Pod and no Service.
C2_Dedup ==
    \A w \in Workers : \A r2 \in Routes :
        (/\ Completed(w, "enable")
         /\ r2 # loc[w].rt /\ r2[1] = loc[w].rt[1]
         /\ EnabledWith(r2, Get(loc[w].annotations, CUSTOM_PAGE_ANNOTATION, NoString))) =>
            LET l == loc[w]
                key == PageKey(l.rt[1], l.handle)
            IN /\ key \in DOMAIN configmaps /\ key \in pods /\ key \in services
               /\ Cardinality(SameContent(l.rt[1], configmaps[key])) = 1
               /\ Contains(UsedByOf(configmaps[key]), l.rt[2])
               /\ Contains(UsedByOf(configmaps[key]), r2[2])
               /\ Get(ingress[l.rt].annotations, SERVICE_NAME_ANNOTATION, NoString) = l.handle
               /\ Get(ingress[r2].annotations, SERVICE_NAME_ANNOTATION, NoString) = l.handle
               /\ pods = l.pre.pods
               /\ services = l.pre.services

C2_Witness ==
    \E w \in Workers : \E r2 \in Routes :
        /\ Completed(w, "enable")
        /\ r2 # loc[w].rt /\ r2[1] = loc[w].rt[1]
        /\ EnabledWith(r2, "blue")
        /\ Get(loc[w].annotations, CUSTOM_PAGE_ANNOTATION, NoString) = "blue"
        /\ Len(UsedByIn(configmaps, PageKey(loc[w].rt[1], loc[w].handle))) = 2

\* no call of acquire or release is between its first and its last API call
NoLifecycleCall ==
    \A w \in Workers :
        pc[w] \in {"idle", "done", "create_backup", "get_backup", "delete_backup",
                   "patch_enable", "patch_switch", "patch_disable"}

ResourceKeys ==
    {k \in DOMAIN configmaps : IsPageConfigMap(configmaps[k])} \cup pods \cup services

\* C3: whenever no acquire or release is in progress, the content holder,
\* the Pod and the Service of a set exist exactly when its used-by is not
\* empty.
C3_Refcount ==
    NoLifecycleCall =>
        \A key \in ResourceKeys :
            LET used == UsedByIn(configmaps, key) # << >>
            IN /\ (key \in DOMAIN configmaps) <=> used
               /\ (key \in pods) <=> used
               /\ (key \in services) <=> used

\* C4: when two acquires of one set for different Routes have both returned,
\* used-by names both Routes.
C4_NoLostUpdate ==
    \A w1 \in Workers, w2 \in Workers :
        (/\ w1 # w2
         /\ Completed(w1, "acquire") /\ Completed(w2, "acquire")
         /\ loc[w1].rt[1] = loc[w2].rt[1]
         /\ loc[w1].resource_name = loc[w2].resource_name) =>
            LET used == UsedByIn(configmaps, PageKey(loc[w1].rt[1], loc[w1].resource_name))
            IN Contains(used, loc[w1].rt[2]) /\ Contains(used, loc[w2].rt[2])


\* C5: a disable that finds no BackupRecord leaves the rules alone, removes
\* both annotations and releases the set the Route referenced.
C5_MissingBackup ==
    \A w \in Workers :
        (pc[w] = "done" /\ loc[w].task = "disable_skipped") =>
            LET rt == loc[w].rt
            IN /\ ingress[rt].spec = loc[w].pre.ingress[rt].spec
               /\ BACKUP_ANNOTATION \notin DOMAIN ingress[rt].annotations
               /\ SERVICE_NAME_ANNOTATION \notin DOMAIN ingress[rt].annotations
               /\ Unreferenced(rt)

\* a direct call of release has returned on worker w
Released(w) == pc[w] = "done" /\ loc[w].task = "release"

\* C6: a release by the only Route in used-by deletes the Pod, the Service
\* and the content holder.
C6_ReleaseLast ==
    \A w \in Workers :
        LET l == loc[w]
            key == PageKey(l.rt[1], l.service_name)
        IN (Released(w) /\ UsedByIn(l.pre.configmaps, key) = <<l.rt[2]>>) =>
              /\ key \notin pods
              /\ key \notin services
              /\ key \notin DOMAIN configmaps

C6_Witness ==
    \E w \in Workers :
        LET l == loc[w]
            key == PageKey(l.rt[1], l.service_name)
        IN /\ Released(w) /\ UsedByIn(l.pre.configmaps, key) = <<l.rt[2]>>
           /\ key \in l.pre.pods /\ key \in l.pre.services
           /\ key \notin DOMAIN configmaps

\* the other names of used, in their order
Others(used, name) == SelectSeq(used, LAMBDA n : n # name)

\* C7: a release from a set that other Routes reference deletes nothing and
\* changes only used-by, which keeps the other names in their order.
C7_ReleaseShared ==
    \A w \in Workers :
        LET l == loc[w]
            key == PageKey(l.rt[1], l.service_name)
            before == UsedByIn(l.pre.configmaps, key)
        IN (Released(w) /\ Others(before, l.rt[2]) # << >>) =>
              /\ pods = l.pre.pods
              /\ services = l.pre.services
              /\ DOMAIN configmaps = DOMAIN l.pre.configmaps
              /\ \A k \in DOMAIN configmaps : k # key => configmaps[k] = l.pre.configmaps[k]
              /\ configmaps[key].data = l.pre.configmaps[key].data
              /\ UsedByOf(configmaps[key]) = Others(before, l.rt[2])

C7_Witness ==
    \E w \in Workers :
        LET l == loc[w]
            key == PageKey(l.rt[1], l.service_name)
            before == UsedByIn(l.pre.configmaps, key)
        IN /\ Released(w)
           /\ Len(before) = 3 /\ before[2] = l.rt[2]
           /\ Len(UsedByIn(configmaps, key)) = 2

\* a direct call of acquire has returned on worker w
Acquired(w) == pc[w] = "done" /\ loc[w].task = "acquire"

\* C8: an acquire that repeats the previous call returns the handle that
\* call returned and leaves the cluster as it found it, with one content
\* holder, one Pod, one Service and the name once in used-by.
C8_AcquireIdempotent ==
    \A w \in Workers :
        LET l == loc[w]
            key == PageKey(l.rt[1], l.handle)
        IN (/\ Acquired(w)
            /\ lastCall.op = "acquire" /\ lastCall.namespace = l.rt[1]
            /\ lastCall.name = l.rt[2] /\ lastCall.arg = l.custom_page) =>
               /\ ~l.failed
               /\ l.handle = lastCall.handle
               /\ Cluster = l.pre
               /\ key \in DOMAIN configmaps /\ key \in pods /\ key \in services
               /\ Cardinality(SameContent(l.rt[1], configmaps[key])) = 1
               /\ Count(UsedByOf(configmaps[key]), l.rt[2]) = 1

C8_Witness ==
    \E w \in Workers :
        LET l == loc[w]
        IN /\ Acquired(w) /\ ~l.failed
           /\ lastCall.op = "acquire" /\ lastCall.namespace = l.rt[1]
           /\ lastCall.name = l.rt[2] /\ lastCall.arg = l.custom_page
           /\ l.custom_page = "blue"
           /\ Len(UsedByIn(configmaps, PageKey(l.rt[1], l.handle))) = 2

\* C9: a release of a handle without content holder changes nothing and
\* raises nothing, and a release that repeats the previous call changes
\* nothing.
C9_ReleaseIdempotent ==
    \A w \in Workers :
        LET l == loc[w]
            key == PageKey(l.rt[1], l.service_name)
        IN /\ (pc[w] = "done" /\ l.task = "release" /\ key \notin DOMAIN l.pre.configmaps) =>
                (~l.failed /\ Cluster = l.pre)
           /\ (/\ pc[w] = "done" /\ l.task = "release"
               /\ lastCall.op = "release" /\ lastCall.namespace = l.rt[1]
               /\ lastCall.name = l.rt[2] /\ lastCall.arg = l.service_name) =>
                (~l.failed /\ Cluster = l.pre)

C9_Witness ==
    \E w \in Workers :
        LET l == loc[w]
            key == PageKey(l.rt[1], l.service_name)
        IN /\ Released(w) /\ ~l.failed
           /\ key \notin DOMAIN l.pre.configmaps
           /\ lastCall.op = "release" /\ lastCall.namespace = l.rt[1]
           /\ lastCall.name = l.rt[2] /\ lastCall.arg = l.service_name
           /\ DOMAIN configmaps # {}


\* the backends the Route sends traffic to: every path backend of every rule
\* and the defaultBackend
RECURSIVE PathTargets(_)
PathTargets(paths) ==
    IF paths = << >> THEN {} ELSE {paths[1].backend} \cup PathTargets(Tail(paths))

RECURSIVE RuleTargets(_)
RuleTargets(rules) ==
    IF rules = << >> THEN {}
    ELSE (IF "http" \in DOMAIN rules[1] THEN PathTargets(rules[1].http.paths) ELSE {})
            \cup RuleTargets(Tail(rules))

\* the set the Route referenced when the switch began, the set it was
\* released from and acquired, and what became of both
SwitchedSets(w) ==
    LET l == loc[w]
        rt == l.rt
        A == PageKey(rt[1], Get(l.pre.ingress[rt].annotations, SERVICE_NAME_ANNOTATION, NoString))
        B == PageKey(rt[1], l.handle)
        last == Others(UsedByIn(l.pre.configmaps, A), rt[2]) = << >>
    IN /\ A # B =>
            /\ ~Contains(UsedByIn(configmaps, A), rt[2])
            /\ last => (A \notin DOMAIN configmaps /\ A \notin pods /\ A \notin services)
            /\ ~last => (A \in DOMAIN configmaps /\ A \in pods /\ A \in services)
       /\ B \in DOMAIN configmaps /\ B \in pods /\ B \in services
       /\ Contains(UsedByOf(configmaps[B]), rt[2])
       /\ Get(ingress[rt].annotations, SERVICE_NAME_ANNOTATION, NoString) = l.handle
       /\ LET bk == <<rt[1], BackupName(rt[2])>>
          IN /\ bk \in DOMAIN configmaps /\ bk \in DOMAIN l.pre.configmaps
             /\ configmaps[bk] = l.pre.configmaps[bk]

\* C10: a content switch releases the Route from the set it referenced,
\* tearing it down if the Route was its last reference, acquires the set of
\* the new page, points every target that was rewritten on enable at the new
\* set's Service, updates the service-name annotation and leaves the
\* BackupRecord as it was.
C10_SwitchIsolation ==
    \A w \in Workers :
        Completed(w, "switch") =>
            LET l == loc[w]
                rt == l.rt
                new_backend == Backend(l.handle, MAINTENANCE_SERVICE_PORT)
            IN /\ SwitchedSets(w)
               /\ RuleTargets(ingress[rt].spec.rules) \subseteq {new_backend}
               /\ RuleTargets(ingress[rt].spec.rules) = {} =>
                      ingress[rt].spec.defaultBackend = new_backend

\* the part of C10 that holds: the same with an Ingress that has a path
C10_SwitchWithPaths ==
    \A w \in Workers :
        (Completed(w, "switch") /\ RuleTargets(loc[w].spec.rules) # {}) =>
            /\ SwitchedSets(w)
            /\ RuleTargets(ingress[loc[w].rt].spec.rules) =
                  {Backend(loc[w].handle, MAINTENANCE_SERVICE_PORT)}


BackupKey(rt) == <<rt[1], BackupName(rt[2])>>

\* C17: the BackupRecord is saved before the enable patch and deleted only
\* after the disable patch, so a Route that carries the backup marker has a
\* BackupRecord in every state.
C17_BackupBracketsPatch ==
    /\ \A rt \in Routes :
          has_backup(ingress[rt].annotations) => BackupKey(rt) \in DOMAIN configmaps
    /\ \A w \in Workers :
          LET l == loc[w]
          IN /\ pc[w] = "patch_enable" => BackupKey(l.rt) \in DOMAIN configmaps
             /\ (l.task = "disable" /\ BackupKey(l.rt) \notin DOMAIN configmaps) =>
                    (Contains(l.calls, "patch_disable") /\ ~has_backup(ingress[l.rt].annotations))

C17_Witness ==
    \E w \in Workers : \E r2 \in Routes :
        /\ Completed(w, "disable")
        /\ loc[w].calls[1] = "get_backup" /\ loc[w].calls[2] = "patch_disable"
        /\ loc[w].calls[3] = "delete_backup"
        /\ BackupKey(loc[w].rt) \in DOMAIN loc[w].pre.configmaps
        /\ BackupKey(loc[w].rt) \notin DOMAIN configmaps
        /\ has_backup(ingress[r2].annotations) /\ BackupKey(r2) \in DOMAIN configmaps


\* the custom page of a revision, as the spec reads it: trimmed
CustomPageOf(annotations) == Strip(Get(annotations, CUSTOM_PAGE_ANNOTATION, NoString))

\* the rule new is the rule old with every path backend replaced by backend
\* and nothing else changed
RuleRetargeted(old, new, backend) ==
    LET old_paths == IF "http" \in DOMAIN old THEN old.http.paths ELSE << >>
    IN /\ Pop(new, "http") = Pop(old, "http")
       /\ "http" \in DOMAIN new
       /\ Len(new.http.paths) = Len(old_paths)
       /\ \A j \in 1..Len(old_paths) :
             /\ Pop(new.http.paths[j], "backend") = Pop(old_paths[j], "backend")
             /\ new.http.paths[j].backend = backend

\* C11: after an enable the BackupRecord holds the rules and defaultBackend
\* the Route had, the set of the Route's custom page exists with the Route in
\* used-by, every path backend (the defaultBackend of an Ingress without
\* rules) is the Service of the set with nothing else changed, and the Route
\* carries the backup marker and the handle.
C11_EnablePost ==
    \A w \in Workers :
        Completed(w, "enable") =>
            LET l == loc[w]
                rt == l.rt
                R == l.pre.ingress[rt].spec
                now == ingress[rt]
                B == PageKey(rt[1], l.handle)
                new_backend == Backend(l.handle, MAINTENANCE_SERVICE_PORT)
            IN /\ BackupKey(rt) \in DOMAIN configmaps
               /\ LoadBackup(configmaps, rt[1], rt[2]) =
                     [rules |-> R.rules, defaultBackend |-> R.defaultBackend]
               /\ l.handle = ResourceName(CustomPageOf(l.pre.ingress[rt].annotations))
               /\ B \in DOMAIN configmaps /\ B \in pods /\ B \in services
               /\ Contains(UsedByOf(configmaps[B]), rt[2])
               /\ Len(now.spec.rules) = Len(R.rules)
               /\ \A i \in 1..Len(R.rules) :
                     RuleRetargeted(R.rules[i], now.spec.rules[i], new_backend)
               /\ now.spec.defaultBackend =
                     IF R.rules = << >> THEN new_backend ELSE R.defaultBackend
               /\ now.annotations =
                     Put(Put(l.pre.ingress[rt].annotations, BACKUP_ANNOTATION, "true"),
                         SERVICE_NAME_ANNOTATION, l.handle)

C11_Witness ==
    \E w \in Workers :
        /\ Completed(w, "enable")
        /\ Len(loc[w].spec.rules) = 2
        /\ loc[w].handle = ResourceName("blue")
        /\ RuleTargets(ingress[loc[w].rt].spec.rules) =
              {Backend(loc[w].handle, MAINTENANCE_SERVICE_PORT)}

\* the backends the Route sends traffic to
Targets(spec) ==
    RuleTargets(spec.rules) \cup (IF spec.defaultBackend # None THEN {spec.defaultBackend} ELSE {})

\* the names create_maintenance_resources gives to sets
SetNames == {ResourceName(p) : p \in CustomPages \cup {NoString}}

\* the Route rt is in used-by of the set behind backend b, whose Service exists
Referenced(rt, b) ==
    /\ PageKey(rt[1], b.service.name) \in services
    /\ Contains(UsedByIn(configmaps, PageKey(rt[1], b.service.name)), rt[2])

\* C12: when no handler is running, every Route that sends traffic to the
\* Service of a set is in used-by of that set, and the Service exists.
C12_TargetsReferenced ==
    AllIdle =>
        \A rt \in Routes : \A b \in Targets(ingress[rt].spec) :
            b.service.name \in SetNames => Referenced(rt, b)

\* the part of C12 that holds: the same for the path backends alone
C12_PathTargetsReferenced ==
    AllIdle =>
        \A rt \in Routes : \A b \in RuleTargets(ingress[rt].spec.rules) :
            b.service.name \in SetNames => Referenced(rt, b)

\* the event the handler was called with needs no action: enabled=false
\* without backup marker, or enabled=true with backup marker and the custom
\* page of the prior revision
NoOpEvent(l) ==
    \/ ~is_under_maintenance(l.annotations) /\ ~has_backup(l.annotations)
    \/ /\ is_under_maintenance(l.annotations) /\ has_backup(l.annotations)
       /\ l.old # None
       /\ CustomPageOf(l.annotations) = CustomPageOf(l.old.metadata.annotations)

HandlerTasks == {"enable", "switch", "disable", "disable_skipped", "noop"}

\* C13: a handler called with an event that needs no action makes no API
\* call and returns with the Route, every ConfigMap, every Pod and every
\* Service as it found them.
C13_NoOp ==
    \A w \in Workers :
        (loc[w].task \in HandlerTasks /\ NoOpEvent(loc[w])) =>
            /\ pc[w] = "done"
            /\ loc[w].calls = << >>
            /\ ~loc[w].failed
            /\ ingress[loc[w].rt] = loc[w].pre.ingress[loc[w].rt]
            /\ configmaps = loc[w].pre.configmaps
            /\ pods = loc[w].pre.pods
            /\ services = loc[w].pre.services

C13_Witness ==
    \E w1 \in Workers :
        /\ pc[w1] = "done" /\ loc[w1].task = "noop" /\ NoOpEvent(loc[w1])
        /\ is_under_maintenance(loc[w1].annotations) /\ has_backup(loc[w1].annotations)
        /\ CustomPageOf(loc[w1].annotations) = "blue"
        /\ DOMAIN configmaps # {}


\* C14: a BackupRecord whose blob does not parse is treated as absent: the
\* disable that loads it does not raise.
C14_CorruptIsAbsent ==
    \A w \in Workers :
        (/\ pc[w] = "done" /\ loc[w].task \in {"disable", "disable_skipped"}
         /\ ~BackupParses(loc[w].pre.configmaps, loc[w].rt[1], loc[w].rt[2])) =>
            ~loc[w].failed

\* C15: a transient failure of any API call of a handling is raised out of
\* the handler, and the failed call is the last call of the handling.
C15_TransientPropagates ==
    \A w \in Workers :
        (pc[w] = "done" /\ loc[w].task \in HandlerTasks /\ loc[w].errors # << >>) =>
            /\ loc[w].failed
            /\ loc[w].calls[Len(loc[w].calls)] = loc[w].errors[1]

\* the Route is NORMAL and nothing of its maintenance is left
Clean(rt) ==
    /\ ingress[rt].spec = spec0[rt]
    /\ BACKUP_ANNOTATION \notin DOMAIN ingress[rt].annotations
    /\ SERVICE_NAME_ANNOTATION \notin DOMAIN ingress[rt].annotations
    /\ BackupKey(rt) \notin DOMAIN configmaps
    /\ Unreferenced(rt)

\* the Route is ACTIVE on the set of its custom page and on no other set
Settled(rt) ==
    LET handle == Get(ingress[rt].annotations, SERVICE_NAME_ANNOTATION, NoString)
        B == PageKey(rt[1], handle)
    IN /\ has_backup(ingress[rt].annotations)
       /\ BackupKey(rt) \in DOMAIN configmaps
       /\ BackupParses(configmaps, rt[1], rt[2])
       /\ LoadBackup(configmaps, rt[1], rt[2]) =
             [rules |-> spec0[rt].rules, defaultBackend |-> spec0[rt].defaultBackend]
       /\ handle = ResourceName(CustomPageOf(ingress[rt].annotations))
       /\ B \in DOMAIN configmaps /\ B \in pods /\ B \in services
       /\ \A k \in DOMAIN configmaps :
             (k[1] = rt[1] /\ Contains(UsedByOf(configmaps[k]), rt[2])) <=> k = B
       /\ RuleTargets(ingress[rt].spec.rules) \subseteq {Backend(handle, MAINTENANCE_SERVICE_PORT)}

\* C16: once every event of a Route has been handled and the last handling
\* met no failure, the Route is in the state a handling without failures
\* leaves: NORMAL with nothing left, or ACTIVE on the set of its custom page.
C16_Converges ==
    \A w \in Workers :
        LET l == loc[w]
        IN (/\ pc[w] = "done" /\ l.task \in HandlerTasks
            /\ l.errors = << >> /\ ~l.failed /\ ~pending[l.rt]) =>
               IF is_under_maintenance(ingress[l.rt].annotations)
               THEN Settled(l.rt) ELSE Clean(l.rt)

ReleaseCalls == {"rel_read", "rel_patch", "rel_delete_pod", "rel_delete_svc", "rel_delete_cm"}

AcquireCalls == {"acq_read", "acq_patch", "acq_create", "acq_pod", "acq_svc"}

\* C18: a disable loads the BackupRecord, patches the Route, deletes the
\* BackupRecord and releases the set, in this order, and when the patch of the
\* Route fails the BackupRecord and used-by are as they were.
C18_DisableOrder ==
    \A w \in Workers :
        LET l == loc[w]
            rt == l.rt
            A == PageKey(rt[1], Get(l.annotations, SERVICE_NAME_ANNOTATION, NoString))
        IN l.task = "disable" =>
              /\ \A i \in 1..Len(l.calls) :
                    /\ i = 1 => l.calls[i] = "get_backup"
                    /\ i = 2 => l.calls[i] = "patch_disable"
                    /\ i = 3 => l.calls[i] = "delete_backup"
                    /\ i > 3 => l.calls[i] \in ReleaseCalls
              /\ (pc[w] = "done" /\ l.errors = <<"patch_disable">>) =>
                    /\ l.failed
                    /\ ingress[rt] = l.pre.ingress[rt]
                    /\ BackupKey(rt) \in DOMAIN configmaps
                    /\ configmaps = l.pre.configmaps
                    /\ Contains(UsedByIn(configmaps, A), rt[2])
                    /\ pods = l.pre.pods /\ services = l.pre.services

C18_Witness ==
    \E w \in Workers :
        /\ pc[w] = "done" /\ loc[w].task = "disable"
        /\ loc[w].errors = <<"patch_disable">> /\ loc[w].failed
        /\ BackupKey(loc[w].rt) \in DOMAIN configmaps
        /\ has_backup(ingress[loc[w].rt].annotations)

\* C19: in a content switch every call of the release precedes every call of
\* the acquire, the Route is out of used-by of the old set when the acquire
\* starts, and the Route is patched last, after the acquire has returned.
C19_SwitchOrder ==
    \A w \in Workers :
        LET l == loc[w]
            rt == l.rt
            n == Len(l.calls)
        IN l.task = "switch" =>
              /\ \A i \in 1..n : \A j \in 1..n :
                    (i < j) => ~(l.calls[i] \in AcquireCalls /\ l.calls[j] \in ReleaseCalls)
              /\ \A i \in 1..n :
                    l.calls[i] = "patch_switch" =>
                        (i = n /\ i > 1 /\ l.calls[i - 1] = "acq_svc" /\ l.handle # NoString)
              /\ pc[w] = "acq_read" =>
                    ~Contains(UsedByIn(configmaps, PageKey(rt[1], l.service_name)), rt[2])
              /\ pc[w] # "done" => ingress[rt] = l.pre.ingress[rt]
              /\ Completed(w, "switch") => l.calls[n] = "patch_switch"

C19_Witness ==
    \E w \in Workers :
        /\ Completed(w, "switch")
        /\ loc[w].calls[1] = "rel_read"
        /\ Contains(loc[w].calls, "rel_delete_cm")
        /\ Contains(loc[w].calls, "acq_create")
        /\ loc[w].calls[Len(loc[w].calls)] = "patch_switch"

\* C20: an event without prior revision for a Route that is enabled and
\* carries the backup marker is not taken for a content switch: no API call
\* is made and nothing changes.
C20_NoPriorSkips ==
    \A w \in Workers :
        LET l == loc[w]
        IN (/\ l.task \in HandlerTasks /\ l.old = None
            /\ is_under_maintenance(l.annotations) /\ has_backup(l.annotations)) =>
               /\ pc[w] = "done"
               /\ l.calls = << >>
               /\ ingress[l.rt] = l.pre.ingress[l.rt]
               /\ configmaps = l.pre.configmaps

\* the BackupRecords of the ConfigMaps cms
BackupKeys(cms) == {k \in DOMAIN cms : "backup" \in DOMAIN cms[k].data}

\* the ConfigMaps cms and the present ones agree on every key but key
SameButFor(cms, key) ==
    /\ DOMAIN configmaps \ {key} = DOMAIN cms \ {key}
    /\ \A k \in DOMAIN cms \ {key} : configmaps[k] = cms[k]

\* C21: a save ends without error with one BackupRecord under the key of the
\* Route that holds the rules saved, whether or not a record was there before
\* (it is then updated, and no record is added under another key); a save of
\* the rules the record already holds changes nothing.
C21_SaveIdempotent ==
    \A w \in Workers :
        LET l == loc[w]
            key == BackupKey(l.rt)
        IN (pc[w] = "done" /\ l.task = "save_backup") =>
              /\ ~l.failed
              /\ key \in DOMAIN configmaps
              /\ JsonLoads(configmaps[key].data["backup"]) = l.backup_data
              /\ SameButFor(l.pre.configmaps, key)
              /\ BackupKeys(configmaps) = BackupKeys(l.pre.configmaps) \cup {key}
              /\ (/\ key \in DOMAIN l.pre.configmaps
                  /\ JsonLoads(l.pre.configmaps[key].data["backup"]) = l.backup_data) =>
                     configmaps = l.pre.configmaps
              /\ (lastCall.op = "save_backup" /\ BackupKey(<<lastCall.namespace, lastCall.name>>) = key
                  /\ lastCall.arg = l.backup_data) => configmaps = l.pre.configmaps

C21_Witness ==
    \E w \in Workers :
        LET l == loc[w]
            key == BackupKey(l.rt)
        IN /\ pc[w] = "done" /\ l.task = "save_backup"
           /\ key \in DOMAIN l.pre.configmaps
           /\ JsonLoads(l.pre.configmaps[key].data["backup"]) # l.backup_data
           /\ l.calls = <<"create_backup", "patch_backup">>
           /\ Cardinality(BackupKeys(configmaps)) = 2

\* C22: a load changes nothing and does not raise; it returns None when the
\* Route has no BackupRecord and otherwise the value the record encodes, which
\* right after a save for the Route is the rules saved.  A delete does not
\* raise, leaves no record for the Route and changes nothing else, so a
\* delete of a missing record changes nothing.
C22_LoadAndDelete ==
    \A w \in Workers :
        LET l == loc[w]
            key == BackupKey(l.rt)
            follows(op) == lastCall.op = op /\ <<lastCall.namespace, lastCall.name>> = l.rt
        IN /\ (pc[w] = "done" /\ l.task = "load_backup") =>
                 /\ ~l.failed
                 /\ configmaps = l.pre.configmaps
                 /\ key \notin DOMAIN configmaps => l.backup_data = None
                 /\ key \in DOMAIN configmaps =>
                        JsonDumps(l.backup_data) = configmaps[key].data["backup"]
                 /\ follows("save_backup") => l.backup_data = lastCall.arg
                 /\ follows("drop_backup") => l.backup_data = None
           /\ (pc[w] = "done" /\ l.task = "drop_backup") =>
                 /\ ~l.failed
                 /\ key \notin DOMAIN configmaps
                 /\ SameButFor(l.pre.configmaps, key)
                 /\ key \notin DOMAIN l.pre.configmaps => configmaps = l.pre.configmaps

C22_Witness ==
    \E w \in Workers :
        LET l == loc[w]
        IN /\ pc[w] = "done" /\ l.task = "load_backup"
           /\ lastCall.op = "save_backup" /\ <<lastCall.namespace, lastCall.name>> = l.rt
           /\ l.backup_data # None /\ l.backup_data.rules # << >>

\* a delete of a missing record, and a load that finds none
C22_WitnessMissing ==
    \E w \in Workers :
        /\ pc[w] = "done" /\ loc[w].task = "drop_backup"
        /\ BackupKey(loc[w].rt) \notin DOMAIN loc[w].pre.configmaps
        /\ lastCall.op = "load_backup" /\ lastCall.arg = None
        /\ <<lastCall.namespace, lastCall.name>> = loc[w].rt

\* C23: an acquire that finds no content holder under the name of its content
\* hash creates the content holder with used-by holding the Route name alone
\* and with the content, then the Pod, then the Service, all three under the
\* name 'maintenance-<hash>', changes nothing else and returns that name.
C23_AcquireCreates ==
    \A w \in Workers :
        LET l == loc[w]
            content == get_html_content(l.custom_page)
            name == "maintenance-" \o hash_content(content)
            key == PageKey(l.rt[1], name)
        IN (Completed(w, "acquire") /\ key \notin DOMAIN l.pre.configmaps) =>
              /\ l.handle = name
              /\ key \in DOMAIN configmaps
              /\ UsedByOf(configmaps[key]) = <<l.rt[2]>>
              /\ configmaps[key].data["index.html"] = content
              /\ SameButFor(l.pre.configmaps, key)
              /\ pods = l.pre.pods \cup {key}
              /\ services = l.pre.services \cup {key}
              /\ l.calls = <<"acq_read", "acq_create", "acq_pod", "acq_svc">>

C23_Witness ==
    \E w \in Workers :
        LET l == loc[w]
            key == PageKey(l.rt[1], l.handle)
        IN /\ Completed(w, "acquire")
           /\ key \notin DOMAIN l.pre.configmaps
           /\ key \notin l.pre.pods /\ key \notin l.pre.services
           /\ l.pre.configmaps # EmptyDict
           /\ key \in DOMAIN configmaps /\ key \in pods /\ key \in services

\* C24: a release that finds used-by empty after the removal of the Route
\* name calls the delete of the Pod, then of the Service, then of the content
\* holder, whichever of the three is already missing, and leaves none of them.
C24_DeleteOrder ==
    \A w \in Workers :
        LET l == loc[w]
            key == PageKey(l.rt[1], l.service_name)
        IN (l.task = "release" /\ l.cm # None /\ l.ingresses = << >>) =>
              /\ \A i \in 1..Len(l.calls) :
                    l.calls[i] = <<"rel_read", "rel_delete_pod", "rel_delete_svc", "rel_delete_cm">>[i]
              /\ pc[w] = "done" =>
                    /\ Len(l.calls) = 4
                    /\ ~l.failed
                    /\ key \notin pods /\ key \notin services /\ key \notin DOMAIN configmaps

C24_Witness ==
    \E w \in Workers :
        LET l == loc[w]
            key == PageKey(l.rt[1], l.service_name)
        IN /\ pc[w] = "done" /\ l.task = "release"
           /\ l.cm # None /\ l.ingresses = << >>
           /\ key \notin l.pre.pods /\ key \in l.pre.services
           /\ l.calls = <<"rel_read", "rel_delete_pod", "rel_delete_svc", "rel_delete_cm">>
           /\ key \notin services /\ key \notin DOMAIN configmaps

HoldersOf(namespace, content) ==
    {k \in DOMAIN configmaps :
        /\ k[1] = namespace
        /\ IsPageConfigMap(configmaps[k])
        /\ configmaps[k].data["index.html"] = content}

\* C26: an acquire with no custom page, with '' or with 'default' in any
\* letter case returns the handle of the default content; the Route joins the
\* one set of the namespace that holds the default content, beside the Routes
\* that were in it.
C26_DefaultPage ==
    \A w \in Workers :
        LET l == loc[w]
            content == OperatorPages[MAINTENANCE_CONFIGMAP_NAME]
            key == PageKey(l.rt[1], "maintenance-" \o hash_content(content))
        IN (Completed(w, "acquire") /\ l.custom_page \in {NoString, "default", "DEFAULT", "Default"}) =>
              /\ l.handle = key[2]
              /\ HoldersOf(l.rt[1], content) = {key}
              /\ Contains(UsedByOf(configmaps[key]), l.rt[2])
              /\ \A i \in 1..Len(UsedByIn(l.pre.configmaps, key)) :
                    Contains(UsedByOf(configmaps[key]), UsedByIn(l.pre.configmaps, key)[i])
              /\ SameButFor(l.pre.configmaps, key)

C26_Witness ==
    \E w \in Workers :
        LET l == loc[w]
            key == PageKey(l.rt[1], l.handle)
        IN /\ Completed(w, "acquire") /\ l.custom_page = "DEFAULT"
           /\ key \in DOMAIN l.pre.configmaps
           /\ l.pre.configmaps[key].annotations[CUSTOM_PAGE_ANNOTATION] = <<"default">>
           /\ Len(UsedByOf(l.pre.configmaps[key])) = 1
           /\ Len(UsedByOf(configmaps[key])) = 2

\* C27: the set a Route is given by an enable or a content switch is the set
\* of the trimmed custom-page annotation: the handle acquired and written to
\* the Route is the one of the trimmed value, and the content holder under it
\* holds the content of the trimmed value.
C27_Trimmed ==
    \A w \in Workers :
        LET l == loc[w]
            trimmed == Strip(Get(l.annotations, CUSTOM_PAGE_ANNOTATION, NoString))
            key == PageKey(l.rt[1], ResourceName(trimmed))
        IN (Completed(w, "enable") \/ Completed(w, "switch")) =>
              /\ l.handle = ResourceName(trimmed)
              /\ Get(ingress[l.rt].annotations, SERVICE_NAME_ANNOTATION, NoString) = key[2]
              /\ key \in DOMAIN configmaps
              /\ configmaps[key].data["index.html"] = get_html_content(trimmed)
              /\ Contains(UsedByOf(configmaps[key]), l.rt[2])

\* the same for the content-switch path alone
C27_SwitchTrimmed ==
    \A w \in Workers :
        LET l == loc[w]
            trimmed == Strip(Get(l.annotations, CUSTOM_PAGE_ANNOTATION, NoString))
            key == PageKey(l.rt[1], ResourceName(trimmed))
        IN Completed(w, "switch") =>
              /\ l.handle = ResourceName(trimmed)
              /\ key \in DOMAIN configmaps
              /\ configmaps[key].data["index.html"] = get_html_content(trimmed)
              /\ Contains(UsedByOf(configmaps[key]), l.rt[2])

\* a content switch to a padded custom page
C27_SwitchPadded ==
    \E w \in Workers :
        /\ Completed(w, "switch")
        /\ Get(loc[w].annotations, CUSTOM_PAGE_ANNOTATION, NoString) = " blue "
        /\ loc[w].handle = ResourceName("blue")

\* the media types the server can serve, and the kind of content of each
SupportedTypes == {"text/html", "application/json", "application/xml", "text/xml"}

KindOf(mimetype) ==
    CASE mimetype = "application/json" -> "json"
      [] mimetype \in {"application/xml", "text/xml"} -> "xml"
      [] OTHER -> "html"

\* the supported media types the Accept header of a request lists, in order
SupportedOf(headers) ==
    SelectSeq(Get(headers, "Accept", << >>), LAMBDA t : Lower(t) \in SupportedTypes)

\* C30: the response is of the kind of the first supported media type the
\* Accept header lists, and text/html when the header is absent or lists no
\* supported type.
C30_FirstListed ==
    \A w \in Workers :
        LET l == loc[w]
            listed == SupportedOf(l.headers)
        IN (pc[w] = "done" /\ l.task = "serve") =>
              /\ l.result.status = HTTP_STATUS_CODE
              /\ listed = << >> => l.result.mimetype = "text/html"
              /\ listed # << >> => KindOf(l.result.mimetype) = KindOf(Lower(listed[1]))

\* an absent, empty, wildcard or unsupported header is answered with
\* text/html, and a header that lists one supported type with that type
C30_SingleOrNone ==
    \A w \in Workers :
        LET l == loc[w]
            listed == SupportedOf(l.headers)
        IN (pc[w] = "done" /\ l.task = "serve" /\ Len(listed) <= 1) =>
              /\ l.result.status = HTTP_STATUS_CODE
              /\ listed = << >> => l.result.mimetype = "text/html"
              /\ listed # << >> => KindOf(l.result.mimetype) = KindOf(Lower(listed[1]))

\* HTML wins over JSON and JSON over XML, wherever they are listed
C30_Priority ==
    \A w \in Workers :
        LET l == loc[w]
            listed == SupportedOf(l.headers)
            kinds == {KindOf(Lower(listed[i])) : i \in 1..Len(listed)}
        IN (pc[w] = "done" /\ l.task = "serve" /\ listed # << >>) =>
              KindOf(l.result.mimetype) =
                 IF "html" \in kinds THEN "html" ELSE IF "json" \in kinds THEN "json" ELSE "xml"

\* C28: a cycle that lists no worker address is skipped: the worker goes
\* back to sleep without listing or patching a table, so that a cycle that
\* lists or patches tables has listed at least one address.
C28_EmptySkips ==
    /\ [](recon.pc # "sleep" => recon.observed # {})
    /\ [][(recon.pc = "sleep" /\ live = {} /\ recon' # recon) =>
             (tables' = tables /\ recon'.pc = "sleep" /\ recon'.outcome = "skipped")]_vars
    /\ [][(tables' # tables /\ recon' # recon) => recon.observed # {}]_vars

C28_Witness ==
    /\ recon.outcome = "skipped" /\ recon.pc = "sleep"
    /\ live = {}
    /\ recon.repaired
    /\ \E ns \in DOMAIN tables : tables[ns].targetAddresses # {}

\* every table holds the addresses of the live worker processes
InSync == \A ns \in DOMAIN tables : tables[ns].targetAddresses = live

-----------------------------------------------------------------------------
(* The proxy entry point of a namespace.                                   *)

\* the Route rt is ACTIVE and its rules target the proxy Service
ProxyActive(rt) ==
    /\ PROXY_BACKUP_ANNOTATION \in DOMAIN ingress[rt].annotations
    /\ Backend(ProxyServiceName, PROXY_SERVICE_PORT) \in Targets(ingress[rt].spec)

\* C31: while an ACTIVE Route of a namespace targets the proxy entry point of
\* the namespace, the entry point exists: disabling another Route of the
\* namespace does not delete it.
C31_ProxyShared ==
    \A rt \in Routes : ProxyActive(rt) => <<rt[1], ProxyServiceName>> \in services

\* the proxy entry point exists while an event of an ACTIVE Route is handled
\* and after the last ACTIVE Route of the namespace was disabled it is gone
C31_ProxyOfSome ==
    \A ns \in {rt[1] : rt \in Routes} :
        <<ns, ProxyServiceName>> \in services =>
            \E rt \in Routes : rt[1] = ns /\ ProxyActive(rt)

-----------------------------------------------------------------------------
(* BackupRecords of Routes of different kinds.                             *)

\* the user has enabled and then disabled the Route, and the operator has
\* handled it
DisabledAgain(rt, annotations) ==
    /\ Get(annotations, MAINTENANCE_ANNOTATION, NoString) = "false"
    /\ ~pending[rt]

\* C32: once an Ingress and an IngressRoute with the same namespace and name
\* have both been enabled and both been disabled, in any order, each has the
\* rules it had at first.
C32_OwnBackup ==
    \A rt \in IngressRoutes :
        (/\ AllIdle
         /\ DisabledAgain(IngressOf(rt), ingress[IngressOf(rt)].annotations)
         /\ DisabledAgain(rt, custom.ingressroutes[rt].annotations))
        => /\ ingress[IngressOf(rt)].spec.rules = spec0[IngressOf(rt)].rules
           /\ custom.ingressroutes[rt].spec.routes = spec0[rt].routes

\* an IngressRoute whose namesake was never touched gets its routes back
C32_Alone ==
    \A rt \in IngressRoutes :
        (/\ AllIdle
         /\ ingress[IngressOf(rt)].annotations = EmptyDict
         /\ DisabledAgain(rt, custom.ingressroutes[rt].annotations))
        => /\ custom.ingressroutes[rt].spec.routes = spec0[rt].routes
           /\ BACKUP_ANNOTATION \notin DOMAIN custom.ingressroutes[rt].annotations

\* both Routes have been enabled and disabled
C32_BothDisabled ==
    \E rt \in IngressRoutes :
        /\ AllIdle
        /\ DisabledAgain(IngressOf(rt), ingress[IngressOf(rt)].annotations)
        /\ DisabledAgain(rt, custom.ingressroutes[rt].annotations)

-----------------------------------------------------------------------------
(* The entry point of an ACTIVE Route, in every state.                     *)

\* the Service behind every maintenance backend among bs exists in namespace ns
EntryPointsExist(ns, bs) ==
    \A b \in bs : b.service.name \in SetNames => PageKey(ns, b.service.name) \in services

\* a content-switch handling of the Route rt is between its first call and its return
Switching(rt) == \E w \in Workers : pc[w] # "idle" /\ loc[w].rt = rt /\ loc[w].task = "switch"

\* C33: in every state, also inside a content-switch handling, the entry
\* point that the rules of an ACTIVE Route target exists.
C33_EntryPointExists ==
    \A rt \in Routes :
        has_backup(ingress[rt].annotations) =>
            EntryPointsExist(rt[1], Targets(ingress[rt].spec))

\* the same for the path backends of the rules alone
C33_PathEntryPointExists ==
    \A rt \in Routes :
        has_backup(ingress[rt].annotations) =>
            EntryPointsExist(rt[1], RuleTargets(ingress[rt].spec.rules))

\* outside a content-switch handling the path backends of an ACTIVE Route
\* target a Service that exists
C33_OutsideSwitch ==
    \A rt \in Routes :
        (has_backup(ingress[rt].annotations) /\ ~Switching(rt)) =>
            EntryPointsExist(rt[1], RuleTargets(ingress[rt].spec.rules))

-----------------------------------------------------------------------------
(* A release of the last reference that races with an acquire.             *)

\* the set named resource_name is whole in namespace ns and name is in its used-by
WholeSetWith(ns, resource_name, name) ==
    /\ PageKey(ns, resource_name) \in DOMAIN configmaps
    /\ PageKey(ns, resource_name) \in pods
    /\ PageKey(ns, resource_name) \in services
    /\ Contains(UsedByIn(configmaps, PageKey(ns, resource_name)), name)

\* worker w has made the calls of a disable of a Route that was the last
\* reference of its set, worker v those of an enable that acquires the same set
ReleaseMetAcquire(w, v) ==
    /\ pc[w] = "done" /\ loc[w].task = "disable"
    /\ pc[v] = "done" /\ loc[v].task = "enable"
    /\ loc[w].rt[1] = loc[v].rt[1]
    /\ loc[w].service_name = loc[v].resource_name
    /\ Contains(loc[w].calls, "rel_delete_cm")

\* C34: when the disable of r1, the last reference of a set, and the enable of
\* r2, which acquires the same set, have both completed, the set is whole with
\* r2 in usedBy, or the enable failed and r2 is not ACTIVE.
C34_ReleaseRace ==
    \A w, v \in Workers :
        ReleaseMetAcquire(w, v) =>
            IF loc[v].failed
            THEN ~has_backup(ingress[loc[v].rt].annotations)
            ELSE WholeSetWith(loc[v].rt[1], loc[v].resource_name, loc[v].rt[2])

-----------------------------------------------------------------------------
(* usedBy is a set.                                                        *)

\* C35: no used-by holds a Route name more than once, whatever acquire and
\* release calls were made and also when one enabling event is handled by two
\* handlers at a time.
C35_NoDuplicate ==
    \A key \in DOMAIN configmaps :
        IsPageConfigMap(configmaps[key]) =>
            \A i, j \in 1..Len(UsedByOf(configmaps[key])) :
                UsedByOf(configmaps[key])[i] = UsedByOf(configmaps[key])[j] => i = j

\* two handlers of one enabling event have both acquired the set without
\* error, one of them created it, and the Route is in its used-by once
C35_Witness ==
    \E w, v \in Workers :
        /\ w # v
        /\ loc[w].rt = loc[v].rt
        /\ Completed(w, "enable") /\ Completed(v, "enable")
        /\ Contains(loc[w].calls, "acq_create")
        /\ Count(UsedByIn(configmaps, PageKey(loc[v].rt[1], loc[v].handle)), loc[v].rt[2]) = 1

-----------------------------------------------------------------------------
(* Sets are keyed by content.                                              *)

\* the custom page of the revision before the one the handler was called with
OldCustomPage(l) ==
    IF l.old = None THEN NoString
    ELSE Strip(Get(l.old.metadata.annotations, CUSTOM_PAGE_ANNOTATION, NoString))

\* the handle the revision before carried
OldHandle(l) ==
    IF l.old = None THEN NoString
    ELSE Get(l.old.metadata.annotations, SERVICE_NAME_ANNOTATION, NoString)

\* the one set of the namespace with the content of custom_page has the handle
\* and is whole
OneSetOf(ns, custom_page, handle) ==
    /\ HoldersOf(ns, get_html_content(custom_page)) = {PageKey(ns, handle)}
    /\ PageKey(ns, handle) \in pods
    /\ PageKey(ns, handle) \in services

\* C36: a Route that enables maintenance with a custom page whose content is
\* that of the different custom page of an ACTIVE Route shares the set of
\* that Route; and when the only Route of a set switches to a custom page of
\* the same content, the set is released and acquired again, and there is one
\* set of that content, with the same handle and with the Route alone in usedBy.
C36_KeyedByContent ==
    \A w \in Workers :
        LET l == loc[w]
            ns == l.rt[1]
            key == PageKey(ns, l.handle)
        IN /\ \A r2 \in Routes : \A p2 \in SamePages \cup {NoString} :
                (/\ Completed(w, "enable")
                 /\ r2 # l.rt /\ r2[1] = ns
                 /\ EnabledWith(r2, p2)
                 /\ p2 # l.custom_page
                 /\ get_html_content(p2) = get_html_content(l.custom_page)) =>
                    /\ OneSetOf(ns, l.custom_page, l.handle)
                    /\ Contains(UsedByOf(configmaps[key]), l.rt[2])
                    /\ Contains(UsedByOf(configmaps[key]), r2[2])
                    /\ Get(ingress[l.rt].annotations, SERVICE_NAME_ANNOTATION, NoString) = l.handle
                    /\ Get(ingress[r2].annotations, SERVICE_NAME_ANNOTATION, NoString) = l.handle
           /\ (/\ Completed(w, "switch")
               /\ get_html_content(OldCustomPage(l)) = get_html_content(l.custom_page)
               /\ UsedByIn(l.pre.configmaps, PageKey(ns, OldHandle(l))) = <<l.rt[2]>>) =>
                    /\ l.handle = OldHandle(l)
                    /\ Contains(l.calls, "rel_delete_cm")
                    /\ Contains(l.calls, "acq_create")
                    /\ OneSetOf(ns, l.custom_page, l.handle)
                    /\ UsedByOf(configmaps[key]) = <<l.rt[2]>>
                    /\ Get(ingress[l.rt].annotations, SERVICE_NAME_ANNOTATION, NoString) = l.handle

\* the only Route of the set of the fallback page has switched from one
\* missing page to the other
C36_Witness ==
    \E w \in Workers :
        /\ Completed(w, "switch")
        /\ OldCustomPage(loc[w]) = "gone" /\ loc[w].custom_page = "lost"
        /\ UsedByIn(loc[w].pre.configmaps, PageKey(loc[w].rt[1], OldHandle(loc[w]))) = <<loc[w].rt[2]>>
        /\ loc[w].handle = ResourceName("gone")

\* two Routes with different missing pages share the set of the fallback page
C36_WitnessShared ==
    \E w \in Workers : \E r2 \in Routes :
        /\ Completed(w, "enable") /\ loc[w].custom_page = "lost"
        /\ r2 # loc[w].rt /\ EnabledWith(r2, "gone")
        /\ Len(UsedByIn(configmaps, PageKey(loc[w].rt[1], loc[w].handle))) = 2

\* the only Route of the set of the default page has switched from no custom
\* page to 'default'
C36_WitnessDefault ==
    \E w \in Workers :
        /\ Completed(w, "switch")
        /\ OldCustomPage(loc[w]) = NoString /\ loc[w].custom_page = "default"
        /\ Contains(loc[w].calls, "acq_create")

-----------------------------------------------------------------------------
(* Acquire and release stay in their namespace.                            *)

\* the keys of s outside the namespace ns
Outside(s, ns) == {k \in s : k[1] # ns}

\* C37: an acquire or a release in one namespace leaves the ConfigMaps
\* (content holders with their used-by, BackupRecords), the Pods and the
\* Services of every other namespace as they were, also those with the same
\* content hash or of a Route with the same name.
C37_OtherNamespaces ==
    \A w \in Workers :
        (pc[w] = "done" /\ loc[w].task \in {"acquire", "release"}) =>
            LET l == loc[w]
                ns == l.rt[1]
            IN /\ Outside(DOMAIN configmaps, ns) = Outside(DOMAIN l.pre.configmaps, ns)
               /\ \A k \in Outside(DOMAIN configmaps, ns) : configmaps[k] = l.pre.configmaps[k]
               /\ Outside(pods, ns) = Outside(l.pre.pods, ns)
               /\ Outside(services, ns) = Outside(l.pre.services, ns)

\* the Route r1 of ns1 has released its set, which is deleted, while ns2 has
\* a set of the same handle with a Route r1 in used-by and a BackupRecord of r1
C37_Witness ==
    \E w \in Workers :
        /\ Completed(w, "release")
        /\ loc[w].rt = <<"ns1", "r1">>
        /\ Contains(loc[w].calls, "rel_delete_cm")
        /\ UsedByIn(configmaps, PageKey("ns2", loc[w].service_name)) = <<"r1">>
        /\ PageKey("ns2", loc[w].service_name) \in pods
        /\ PageKey("ns2", loc[w].service_name) \in services
        /\ <<"ns2", BackupName("r1")>> \in DOMAIN configmaps

\* the Route r1 of ns1 has acquired a set that ns2 has under the same handle
C37_WitnessAcquire ==
    \E w \in Workers :
        /\ Completed(w, "acquire")
        /\ loc[w].rt = <<"ns1", "r1">>
        /\ Contains(loc[w].calls, "acq_create")
        /\ UsedByIn(configmaps, PageKey("ns2", loc[w].handle)) = <<"r1">>

-----------------------------------------------------------------------------
(* The defaultBackend of an Ingress.                                       *)

\* C38: an enable rewrites the defaultBackend to the Service of the set only
\* when the Ingress has no rules; with rules it rewrites every path backend
\* of every rule and leaves the defaultBackend as it was; either way the
\* BackupRecord holds the rules and the defaultBackend the Ingress had, and a
\* disable gives the Ingress both back.
C38_DefaultBackend ==
    \A w \in Workers :
        LET l == loc[w]
            rt == l.rt
            R == l.pre.ingress[rt].spec
            now == ingress[rt].spec
            new_backend == Backend(l.handle, MAINTENANCE_SERVICE_PORT)
        IN /\ Completed(w, "enable") =>
                /\ IF R.rules = << >>
                   THEN now.defaultBackend = new_backend /\ now.rules = << >>
                   ELSE /\ now.defaultBackend = R.defaultBackend
                        /\ Len(now.rules) = Len(R.rules)
                        /\ \A i \in 1..Len(R.rules) :
                              RuleRetargeted(R.rules[i], now.rules[i], new_backend)
                /\ LoadBackup(configmaps, rt[1], rt[2]) =
                      [rules |-> R.rules, defaultBackend |-> R.defaultBackend]
                /\ R = spec0[rt]
           /\ Completed(w, "disable") =>
                /\ now.rules = spec0[rt].rules
                /\ now.defaultBackend = spec0[rt].defaultBackend
                /\ l.backup_data = [rules |-> spec0[rt].rules,
                                    defaultBackend |-> spec0[rt].defaultBackend]

\* an Ingress without rules, whose defaultBackend was the Service of a set,
\* has been disabled
C38_Witness ==
    \E w \in Workers :
        /\ Completed(w, "disable")
        /\ spec0[loc[w].rt].rules = << >>
        /\ loc[w].pre.ingress[loc[w].rt].spec.defaultBackend.service.name \in SetNames
        /\ ingress[loc[w].rt].spec.defaultBackend = Backend("svc-b", 8080)

\* an Ingress with rules and a defaultBackend has been enabled
C38_WitnessRules ==
    \E w \in Workers :
        /\ Completed(w, "enable")
        /\ Len(loc[w].spec.rules) = 2
        /\ ingress[loc[w].rt].spec.defaultBackend = Backend("svc-b", 8080)
        /\ RuleTargets(ingress[loc[w].rt].spec.rules) =
              {Backend(loc[w].handle, MAINTENANCE_SERVICE_PORT)}

====
